---- MODULE Spec2Model ----
(***************************************************************************)
(* Model of the documentation pipeline of mastra-lib-docs-template:        *)
(*   - the multi-phase file retriever   (fetchAllDocs,   unnamed/part_003) *)
(*   - the markdown structural parser   (parseMarkdown,  extract-all-apis) *)
(*   - the signature extractor          (extractAllApis, extract-all-apis) *)
(* Text is modelled as TLA+ strings, read character by character with      *)
(* SubSeq.  A TLA+ string literal cannot hold the backquote character, so   *)
(* the apostrophe ' stands for the backquote (U+0060) everywhere below.     *)
(***************************************************************************)
EXTENDS Integers, Sequences, FiniteSets, TLC

VARIABLES
    \* ---- fetchAllDocs (retriever) ----
    pc,             \* position of the execute() body
    searchType,     \* ctx.context.searchType
    maxFiles,       \* ctx.context.maxFiles
    docPaths,       \* candidate table built from searchType
    files,          \* const files = []
    branch,         \* let branch = 'main'
    idx,            \* index of the running outer loop
    listing,        \* the directory listing being iterated
    sub,            \* index of the running inner loop over listing
    packages,       \* the packages listing of the monorepo pass
    defaultBranch,  \* remote: the repository's default branch
    probes,         \* history: response.ok of the branch probes, in order
    usedRefs,       \* history: git refs read by requests made after the probes
    reqAtCap,       \* history: a request was issued with files.length >= maxFiles
    errorLog,       \* history: the failed requests, and whether logError was called for each
    result,         \* value returned by execute()
    \* ---- parseMarkdown (parser) ----
    lines,          \* content.split('\n')
    lineNo,         \* index of the next line of the for loop
    sections, codeBlocks, links,
    currentSection, currentContent, inCodeBlock, currentCodeBlock,
    parsed,         \* value returned by execute()
    \* ---- extractAllApis (extractor) ----
    epc,            \* position of the execute() body
    content,        \* ctx.context.content
    contentType,    \* ctx.context.contentType
    apis,           \* const apis = []
    uniqueApis,     \* const uniqueApis = []
    seen,           \* const seen = new Set()
    apiNo,          \* index of the deduplication loop over apis
    extracted,      \* value returned by execute()
    firstResult,    \* history: input and result of the first call with each input
    previous,       \* history: input of the call before the current one
    calls,          \* history: number of completed calls
    raised,         \* the last call ended by raising instead of returning
    \* ---- logger ----
    sinkOk,         \* environment: fs.appendFileSync on the log file succeeds
    \* ---- scrapeDocumentation (crawler) ----
    cpc,            \* position of the execute() body
    url,            \* ctx.context.url
    maxPages,       \* ctx.context.maxPages (default 10)
    patterns,       \* const patterns = sitePattern ? sitePattern[1] : null
    scraped,        \* const apis = [] of the crawler
    visitedUrls,    \* const visitedUrls = new Set()
    urlsToVisit,    \* const urlsToVisit = [url]
    pagesScraped,   \* let pagesScraped = 0
    currentUrl,     \* const currentUrl = urlsToVisit.shift()
    scrapeResult,   \* value returned by execute()
    requests,       \* history: the page requests made and how each ended
    \* ---- analyzeRepository (resolver) ----
    apc,            \* position of the execute() body
    repoUrl,        \* ctx.context.repoUrl
    repoData,       \* const repoData = await repoResponse.json()
    languages,      \* const languages
    primaryLanguage,
    documentationSources,
    packageManager,
    projectStructure,
    analysis,       \* value returned by execute()
    remoteCalls,    \* history: the calls of the api made and how each ended
    \* ---- Home (page) ----
    hpc,            \* position of the handleAnalyze() body
    isLoading,      \* useState(false)
    output,         \* useState(null)
    shownRepoUrl,   \* the page's repoUrl, useState("")
    workflowSteps,  \* useState([...four steps...])
    outcomes        \* history: how each analysis ended, in order

rvars == <<pc, searchType, maxFiles, docPaths, files, branch, idx, listing, sub,
           packages, defaultBranch, probes, usedRefs, reqAtCap, errorLog, result>>
pvars == <<lines, lineNo, sections, codeBlocks, links, currentSection,
           currentContent, inCodeBlock, currentCodeBlock, parsed>>
evars == <<epc, content, contentType, apis, uniqueApis, seen, apiNo, extracted,
           firstResult, previous, calls, raised>>
cvars == <<cpc, url, maxPages, patterns, scraped, visitedUrls, urlsToVisit,
           pagesScraped, currentUrl, scrapeResult, requests>>
avars == <<apc, repoUrl, repoData, languages, primaryLanguage, documentationSources,
           packageManager, projectStructure, analysis, remoteCalls>>
lvars == <<sinkOk>>
hvars == <<hpc, isLoading, output, shownRepoUrl, workflowSteps, outcomes>>
vars == <<rvars, pvars, evars, cvars, avars, lvars, hvars>>

\* what an action of one tool leaves alone: the state of the other tools
besidesRetriever == <<pvars, evars, cvars, avars, lvars, hvars>>
besidesParser == <<rvars, evars, cvars, avars, lvars, hvars>>
besidesExtractor == <<rvars, pvars, cvars, avars, lvars, hvars>>
besidesCrawler == <<rvars, pvars, evars, avars, lvars, hvars>>
besidesResolver == <<rvars, pvars, evars, cvars, lvars, hvars>>
besidesLogger == <<rvars, pvars, evars, cvars, avars, hvars>>
besidesPage == <<rvars, pvars, evars, cvars, avars, lvars>>

(***************************************************************************)
(* String primitives (String.prototype)                                    *)
(***************************************************************************)
Ch(s, i) == SubSeq(s, i, i)

Chars(s) == {Ch(s, k) : k \in 1..Len(s)}

Lower == "abcdefghijklmnopqrstuvwxyz"
Upper == "ABCDEFGHIJKLMNOPQRSTUVWXYZ"
Digits == "0123456789"

UpperCh(c) ==
    IF \E k \in 1..Len(Lower) : Ch(Lower, k) = c
    THEN Ch(Upper, CHOOSE k \in 1..Len(Lower) : Ch(Lower, k) = c)
    ELSE c

RECURSIVE toUpperCase(_)
toUpperCase(s) == IF s = "" THEN "" ELSE UpperCh(Head(s)) \o toUpperCase(Tail(s))

includes(s, t) ==
    \E i \in 1..(Len(s) - Len(t) + 1) : SubSeq(s, i, i + Len(t) - 1) = t

startsWith(s, t) == Len(t) <= Len(s) /\ SubSeq(s, 1, Len(t)) = t

endsWith(s, t) == Len(t) <= Len(s) /\ SubSeq(s, Len(s) - Len(t) + 1, Len(s)) = t

\* s.split('.').pop() || dflt
LastDot(s) ==
    IF \E i \in 1..Len(s) : Ch(s, i) = "."
    THEN CHOOSE i \in 1..Len(s) : Ch(s, i) = "." /\ \A j \in (i+1)..Len(s) : Ch(s, j) # "."
    ELSE 0
Extension(s, dflt) ==
    LET e == SubSeq(s, LastDot(s) + 1, Len(s)) IN IF e = "" THEN dflt ELSE e

(***************************************************************************)
(* More string primitives: trim, split, join                               *)
(***************************************************************************)
WhiteSpace == {" ", "\t", "\n", "\r", "\f"}

RECURSIVE trimStart(_)
trimStart(s) == IF s # "" /\ Head(s) \in WhiteSpace THEN trimStart(Tail(s)) ELSE s

RECURSIVE trimEnd(_)
trimEnd(s) ==
    IF s # "" /\ Ch(s, Len(s)) \in WhiteSpace THEN trimEnd(SubSeq(s, 1, Len(s) - 1)) ELSE s

trim(s) == trimEnd(trimStart(s))

\* s.split(sep), sep a single character
RECURSIVE split(_, _)
split(s, sep) ==
    IF \E i \in 1..Len(s) : Ch(s, i) = sep
    THEN LET i == CHOOSE i \in 1..Len(s) :
                     Ch(s, i) = sep /\ \A j \in 1..(i - 1) : Ch(s, j) # sep
         IN  <<SubSeq(s, 1, i - 1)>> \o split(SubSeq(s, i + 1, Len(s)), sep)
    ELSE <<s>>

\* a.join(sep)
RECURSIVE join(_, _)
join(a, sep) ==
    IF Len(a) = 0 THEN ""
    ELSE IF Len(a) = 1 THEN a[1]
    ELSE a[1] \o sep \o join(Tail(a), sep)

(***************************************************************************)
(* Regular expressions (RegExp): a backtracking matcher with the priority  *)
(* order of ECMAScript (greedy and lazy quantifiers, leftmost alternative, *)
(* capture groups).  A pattern is a tree of the nodes below; the matcher    *)
(* works on the list of nodes still to be matched.                          *)
(***************************************************************************)
Set(cs) == [t |-> "set", neg |-> FALSE, cs |-> cs]           \* [abc]
NotSet(cs) == [t |-> "set", neg |-> TRUE, cs |-> cs]         \* [^abc]
Lit(c) == Set({c})                                           \* one literal character
Cat(rs) == [t |-> "cat", rs |-> rs]                          \* r1 r2 ...
Alt(rs) == [t |-> "alt", rs |-> rs]                          \* r1 | r2 | ...
Rep(r, min, max, lazy) ==                                    \* r{min,max}, max < 0: no limit
    [t |-> "rep", r |-> r, min |-> min, max |-> max, lazy |-> lazy]
Star(r) == Rep(r, 0, -1, FALSE)                              \* r*
Plus(r) == Rep(r, 1, -1, FALSE)                              \* r+
Opt(r) == Rep(r, 0, 1, FALSE)                                \* r?
LazyStar(r) == Rep(r, 0, -1, TRUE)                           \* r*?
Grp(n, r) == [t |-> "grp", n |-> n, r |-> r]                 \* capture group n
Bol(m) == [t |-> "bol", m |-> m]                             \* ^ (m: the m flag)
Eol(m) == [t |-> "eol", m |-> m]                             \* $ (m: the m flag)

Text(s) == [t |-> "str", s |-> s]                            \* a literal string

WordChars == Chars(Lower) \cup Chars(Upper) \cup Chars(Digits) \cup {"_"}
IdStart == Chars(Lower) \cup Chars(Upper) \cup {"_"}         \* [a-zA-Z_]
LineEnds == {"\n", "\r"}
Word == Set(WordChars)                                       \* \w
Space == Set(WhiteSpace)                                     \* \s
Dot == NotSet(LineEnds)                                      \* .
AnyChar == NotSet({})                                        \* [\s\S]

Undefined == "<undefined>"                  \* a capture group that did not take part
NoMatch == [ok |-> FALSE, index |-> 0, end |-> 0, caps |-> <<>>]

RECURSIVE Match(_, _, _, _)
Match(k, s, i, caps) ==
    IF Len(k) = 0 THEN [ok |-> TRUE, index |-> 0, end |-> i, caps |-> caps]
    ELSE
    LET h == Head(k)
        rest == Tail(k)
    IN  CASE h.t = "set" ->
                IF i <= Len(s) /\ ((Ch(s, i) \in h.cs) # h.neg)
                THEN Match(rest, s, i + 1, caps) ELSE NoMatch
          [] h.t = "cat" -> Match(h.rs \o rest, s, i, caps)
          [] h.t = "alt" ->
                IF Len(h.rs) = 0 THEN NoMatch
                ELSE LET first == Match(<<Head(h.rs)>> \o rest, s, i, caps)
                     IN  IF first.ok THEN first
                         ELSE Match(<<Alt(Tail(h.rs))>> \o rest, s, i, caps)
          [] h.t = "str" ->
                IF i + Len(h.s) - 1 <= Len(s) /\ SubSeq(s, i, i + Len(h.s) - 1) = h.s
                THEN Match(rest, s, i + Len(h.s), caps) ELSE NoMatch
          [] h.t = "rep" /\ h.r.t = "set" ->
                \* a repeated character class: the counts it can take, tried
                \* from the longest (greedy) or from the shortest (lazy)
                LET left == Len(s) - i + 1
                    limit == IF h.max < 0 \/ h.max > left THEN left ELSE h.max
                    fits(j) == (Ch(s, j) \in h.r.cs) # h.r.neg
                    run == CHOOSE n \in 0..limit :
                               /\ \A j \in i..(i + n - 1) : fits(j)
                               /\ n = limit \/ ~fits(i + n)
                    oks == {n \in h.min..run : Match(rest, s, i + n, caps).ok}
                    pick == IF h.lazy THEN CHOOSE n \in oks : \A o \in oks : n <= o
                            ELSE CHOOSE n \in oks : \A o \in oks : n >= o
                IN  IF oks = {} THEN NoMatch ELSE Match(rest, s, i + pick, caps)
          [] h.t = "rep" /\ h.r.t # "set" ->
                LET again == Rep(h.r, IF h.min > 0 THEN h.min - 1 ELSE 0,
                                 IF h.max > 0 THEN h.max - 1 ELSE h.max, h.lazy)
                    more == IF h.max = 0 THEN NoMatch
                            ELSE Match(<<h.r, [t |-> "progress", at |-> i, min |-> h.min],
                                         again>> \o rest, s, i, caps)
                    stop == IF h.min > 0 THEN NoMatch ELSE Match(rest, s, i, caps)
                IN  IF h.lazy
                    THEN (IF stop.ok THEN stop ELSE more)
                    ELSE (IF more.ok THEN more ELSE stop)
          [] h.t = "progress" ->     \* an optional iteration must consume input
                IF h.min = 0 /\ i = h.at THEN NoMatch ELSE Match(rest, s, i, caps)
          [] h.t = "grp" ->
                Match(<<h.r, [t |-> "close", n |-> h.n, from |-> i]>> \o rest, s, i, caps)
          [] h.t = "close" ->
                Match(rest, s, i, [caps EXCEPT ![h.n] = SubSeq(s, h.from, i - 1)])
          [] h.t = "bol" ->
                IF i = 1 \/ (h.m /\ i > 1 /\ Ch(s, i - 1) = "\n")
                THEN Match(rest, s, i, caps) ELSE NoMatch
          [] h.t = "eol" ->
                IF i = Len(s) + 1 \/ (h.m /\ i <= Len(s) /\ Ch(s, i) = "\n")
                THEN Match(rest, s, i, caps) ELSE NoMatch

\* re.exec(s) with lastIndex = from - 1: the leftmost match at or after from
exec(re, groups, s, from) ==
    LET At(f) == Match(<<re>>, s, f, [g \in 1..groups |-> Undefined])
        Leftmost(f) == [At(f) EXCEPT !.index = f]
    IN  IF \E f \in from..(Len(s) + 1) : At(f).ok
        THEN Leftmost(CHOOSE f \in from..(Len(s) + 1) :
                          At(f).ok /\ \A g \in from..(f - 1) : ~At(g).ok)
        ELSE NoMatch

\* match[0] and match[n]
Whole(s, m) == SubSeq(s, m.index, m.end - 1)
Group(m, n) == m.caps[n]

\* the matches of  while ((match = re.exec(s)) !== null)  with the g flag,
\* and of s.match(re) with the g flag (an empty match advances by one)
RECURSIVE execAll(_, _, _, _)
execAll(re, groups, s, from) ==
    LET Loop(m) ==
            IF ~m.ok THEN <<>>
            ELSE <<m>> \o execAll(re, groups, s, IF m.end > m.index THEN m.end ELSE m.end + 1)
    IN  Loop(exec(re, groups, s, from))

(***************************************************************************)
(* fetchAllDocs: constants of the source                                   *)
(***************************************************************************)
CharsPerToken == 4
LargeFileTokens == 50000
TruncateChars == 200000

\* const estimateTokens = (text) => Math.ceil(text.length / 4), on a length
estimateTokens(len) == (len + CharsPerToken - 1) \div CharsPerToken

SKIP_FILES == <<"CHANGELOG.md", "CONTRIBUTING.md", "CODE_OF_CONDUCT.md",
                "SECURITY.md", "LICENSE", "LICENSE.md", "PATENTS", ".github",
                "HISTORY.md", "CHANGES.md", "NEWS.md">>

shouldSkipFile(path) ==
    LET upperPath == toUpperCase(path)
    IN  \E k \in 1..Len(SKIP_FILES) : includes(upperPath, toUpperCase(SKIP_FILES[k]))

SearchTypes == {"docs", "types", "source", "all"}

DocCandidates == <<"README.md", "readme.md", "README.rst", "API.md", "api.md",
                   "REFERENCE.md", "reference.md", "docs/API.md", "docs/api.md",
                   "docs/reference.md", "docs/getting-started.md",
                   "docs/quick-start.md", "documentation.md", "DOCUMENTATION.md",
                   "USAGE.md", "GUIDE.md">>
TypeCandidates == <<"index.d.ts", "types/index.d.ts", "dist/index.d.ts",
                    "lib/index.d.ts", "typings/index.d.ts", "lodash.d.ts",
                    "types.d.ts">>
SourceCandidates == <<"package.json", "index.js", "index.ts", "src/index.js",
                      "src/index.ts", "lib/index.js", "dist/index.js",
                      "lodash.js", "main.js", "main.ts">>

BuildDocPaths(st) ==
    (IF st \in {"docs", "all"} THEN DocCandidates ELSE <<>>)
    \o (IF st \in {"types", "all"} THEN TypeCandidates ELSE <<>>)
    \o (IF st \in {"source", "all"} THEN SourceCandidates ELSE <<>>)

branches == <<"main", "master">>
docDirs == <<"docs", "documentation", "doc", "api-docs">>
typeLocations == <<"", "types", "typings", "dist", "lib", "@types">>
PackageEntryNames == {"index.d.ts", "index.ts", "index.js"}

\* pkg.main || pkg.module || pkg.browser
OrElse(a, b) == IF a # "" THEN a ELSE b

(***************************************************************************)
(* The remote side: what the hosting service may answer.  Every request    *)
(* may fail (non-OK status, or fetch() rejecting); it may succeed only for *)
(* the paths and listings below.                                           *)
(***************************************************************************)
MaxFilesBound == 2

RemoteRefs == {"main", "master", "develop"}

\* candidate paths that may exist in the remote repository
RemoteFiles == {"README.md", "docs/API.md", "index.d.ts", "package.json", "index.js"}

\* directories whose listing may exist in the remote repository ("" is the root)
RemoteDirs == {"", "docs", "types", "packages", "packages/core"}

\* content lengths a successful fetch may return: at the limit, one over it
ContentLengths == {TruncateChars, TruncateChars + 1}

NotJson == [parses |-> FALSE, main |-> "", module |-> "", browser |-> "",
            types |-> "", typings |-> ""]
Manifests == {
    [parses |-> TRUE, main |-> "", module |-> "", browser |-> "",
     types |-> "", typings |-> ""],
    [parses |-> TRUE, main |-> "", module |-> "dist/changelog.js", browser |-> "",
     types |-> "", typings |-> "index.d.ts"],
    NotJson }

DocsListing == <<[name |-> "guide.md", type |-> "file"],
                 [name |-> "changelog.md", type |-> "file"],
                 [name |-> "logo.png", type |-> "file"],
                 [name |-> "api.rst", type |-> "dir"]>>
TypesListing == <<[name |-> "index.d.ts", type |-> "file"],
                  [name |-> "Changelog.d.ts", type |-> "file"],
                  [name |-> "index.js", type |-> "file"],
                  [name |-> "legacy.d.ts", type |-> "dir"]>>
PackagesListing == <<[name |-> "README.md", type |-> "file"],
                     [name |-> "core", type |-> "dir"],
                     [name |-> "cli", type |-> "dir"]>>
PackageListing == <<[name |-> "package.json", type |-> "file"],
                    [name |-> "index.ts", type |-> "file"],
                    [name |-> "index.d.ts", type |-> "file"],
                    [name |-> "index.js", type |-> "dir"]>>

\* outcomes of fetch(): a response (ok or not), or a rejected promise
FailedFetch == {[kind |-> "notfound"], [kind |-> "error"], [kind |-> "throw"]}
RawFetch(path) ==
    FailedFetch \cup
    (IF path \in RemoteFiles
     THEN {[kind |-> "ok", len |-> n, pkg |-> m] :
              n \in ContentLengths,
              m \in (IF path = "package.json" THEN Manifests ELSE {NotJson})}
     ELSE {})
\* a package's manifest, read through the contents API (its fields are never read)
PackageManifestFetch ==
    FailedFetch \cup {[kind |-> "ok", len |-> n, pkg |-> NotJson] : n \in ContentLengths}
FileFetch == FailedFetch \cup {[kind |-> "ok", len |-> n, pkg |-> NotJson] : n \in ContentLengths}
ListingFetch(dir, l) ==
    FailedFetch \cup
    (IF dir \in RemoteDirs
     THEN {[kind |-> "ok", array |-> TRUE, entries |-> l],
           [kind |-> "ok", array |-> FALSE, entries |-> <<>>]}
     ELSE {})

(***************************************************************************)
(* fetchAllDocs.execute                                                    *)
(***************************************************************************)
AtCapOffByOne == Len(files) > maxFiles
\* files.length >= maxFiles
AtCap == Len(files) >= maxFiles

\* history of the requests issued after the branch probes
Request(ref) ==
    /\ usedRefs' = usedRefs \cup {ref}
    /\ reqAtCap' = (reqAtCap \/ AtCap)
\* a request that reads no file tree (repository metadata)
MetaRequest ==
    /\ UNCHANGED usedRefs
    /\ reqAtCap' = (reqAtCap \/ AtCap)
NoRequest == UNCHANGED <<usedRefs, reqAtCap, errorLog>>

\* how a request ended: a response that is not OK passes the test of
\* response.ok unlogged; a rejected fetch reaches the enclosing catch, which
\* calls logError or does not
Outcome(kind, catchLogs) ==
    errorLog' = IF kind = "ok" THEN errorLog
                ELSE errorLog \cup {[kind |-> kind, logged |-> (kind = "throw" /\ catchLogs)]}

FileEntry(path, type, len, pkg) ==
    [path |-> path, type |-> type, len |-> len, truncated |-> FALSE,
     fetched |-> len, pkg |-> pkg]
TruncatedEntry(path, type, len) ==
    [path |-> path, type |-> type,
     len |-> IF len < TruncateChars THEN len ELSE TruncateChars,   \* substring(0, 200000)
     truncated |-> TRUE, fetched |-> len, pkg |-> NotJson]

\* lines 147-184: the entry pushed for a fetched candidate
CandidateEntry(path, o) ==
    IF estimateTokens(o.len) > LargeFileTokens /\ path # "package.json"
    THEN TruncatedEntry(path, Extension(path, "unknown"), o.len)
    ELSE FileEntry(path, Extension(path, "unknown"), o.len, o.pkg)

\* lines 241-263: the entry pushed for a documentation directory member
DocEntry(filePath, name, o) ==
    IF estimateTokens(o.len) > LargeFileTokens
    THEN TruncatedEntry(filePath, Extension(name, "unknown"), o.len)
    ELSE FileEntry(filePath, Extension(name, "unknown"), o.len, NotJson)

Idle ==
    /\ pc = "idle" /\ searchType = "all" /\ maxFiles = 0 /\ docPaths = <<>>
    /\ files = <<>> /\ branch = "main" /\ idx = 0 /\ listing = <<>> /\ sub = 0
    /\ packages = <<>> /\ defaultBranch = "main" /\ probes = <<>>
    /\ usedRefs = {} /\ reqAtCap = FALSE /\ errorLog = {}
    /\ result = [files |-> <<>>, success |-> FALSE, error |-> Undefined, returned |-> FALSE]

\* the message of the TypeError a rejected fetch() carries
FetchFailed == "fetch failed"
\* line 472
NoFilesFound == "No documentation files found"
\* lines 484-491: the outer catch
Caught(message) == [files |-> <<>>, success |-> FALSE, error |-> message, returned |-> TRUE]
\* line 471: success: files.length > 0
SucceededAlways(fs) == TRUE
Succeeded(fs) == Len(fs) > 0

\* lines 49-121: destructure the input, build the candidate table
Execute ==
    /\ pc = "idle"
    /\ \E st \in SearchTypes, mf \in 0..MaxFilesBound, db \in RemoteRefs :
          /\ searchType' = st
          /\ maxFiles' = mf
          /\ defaultBranch' = db
          /\ docPaths' = BuildDocPaths(st)
    /\ files' = <<>>
    /\ branch' = "main"
    /\ idx' = 1
    /\ pc' = "probe"
    /\ UNCHANGED <<listing, sub, packages, probes, usedRefs, reqAtCap, errorLog, result>>
    /\ UNCHANGED besidesRetriever

\* lines 123-130: probe main, then master; a rejected fetch reaches the outer catch
ProbeBranch ==
    /\ pc = "probe"
    /\ \E o \in {"ok", "notfound", "error", "throw"} :
          /\ probes' = Append(probes, o = "ok")   \* response.ok
          /\ Outcome(o, TRUE)                     \* line 485
          /\ IF o = "throw"
             THEN /\ pc' = "done"
                  /\ result' = Caught(FetchFailed)
                  /\ UNCHANGED <<branch, idx>>
             ELSE IF o = "ok"
             THEN /\ branch' = branches[idx]
                  /\ idx' = 1
                  /\ pc' = "candidates"
                  /\ UNCHANGED result
             ELSE /\ IF idx < Len(branches)
                     THEN idx' = idx + 1 /\ pc' = pc
                     ELSE idx' = 1 /\ pc' = "candidates"
                  /\ UNCHANGED <<branch, result>>
    /\ UNCHANGED <<searchType, maxFiles, docPaths, files, listing, sub, packages,
                   defaultBranch, usedRefs, reqAtCap>>
    /\ UNCHANGED besidesRetriever

\* lines 133-197: one iteration of the candidate loop
CandidateStep ==
    /\ pc = "candidates"
    /\ IF idx > Len(docPaths) \/ AtCap
       THEN /\ pc' = "docs"
            /\ UNCHANGED <<files, idx>>
            /\ NoRequest
       ELSE IF shouldSkipFile(docPaths[idx])
       THEN /\ idx' = idx + 1
            /\ UNCHANGED <<pc, files>>
            /\ NoRequest
       ELSE /\ \E o \in RawFetch(docPaths[idx]) :
                  /\ files' = IF o.kind = "ok"
                              THEN Append(files, CandidateEntry(docPaths[idx], o))
                              ELSE files
                  /\ Outcome(o.kind, TRUE)         \* line 195
            /\ Request(branch)
            /\ idx' = idx + 1
            /\ UNCHANGED pc
    /\ UNCHANGED <<searchType, maxFiles, docPaths, branch, listing, sub, packages,
                   defaultBranch, probes, result>>
    /\ UNCHANGED besidesRetriever

\* lines 200-211: guard of the documentation-directory pass, repository metadata call
DocsBegin ==
    /\ pc = "docs"
    /\ IF ~AtCap /\ searchType \in {"all", "docs"}
       THEN /\ \E o \in {"ok", "notfound", "error", "throw"} :
                  /\ pc' = IF o = "throw" THEN "types" ELSE "docsDir"
                  /\ Outcome(o, TRUE)              \* line 273
            /\ MetaRequest
       ELSE /\ pc' = "types"
            /\ NoRequest
    /\ idx' = 1
    /\ UNCHANGED <<searchType, maxFiles, docPaths, files, branch, listing, sub,
                   packages, defaultBranch, probes, result>>
    /\ UNCHANGED besidesRetriever

\* lines 216-226: list one documentation directory
DocsDir ==
    /\ pc = "docsDir"
    /\ IF idx > Len(docDirs) \/ AtCap
       THEN /\ pc' = "types"
            /\ idx' = 1
            /\ UNCHANGED <<listing, sub>>
            /\ NoRequest
       ELSE /\ \E o \in ListingFetch(docDirs[idx], DocsListing) :
                  /\ IF o.kind = "ok" /\ o.array
                     THEN pc' = "docsMember" /\ listing' = o.entries /\ sub' = 1 /\ idx' = idx
                     ELSE IF o.kind = "ok" \/ o.kind = "throw"
                     \* a non-iterable body or a rejected fetch leaves the pass (line 272)
                     THEN pc' = "types" /\ idx' = 1 /\ UNCHANGED <<listing, sub>>
                     ELSE pc' = pc /\ idx' = idx + 1 /\ UNCHANGED <<listing, sub>>
                  /\ Outcome(o.kind, TRUE)         \* line 273
            /\ Request(defaultBranch)
    /\ UNCHANGED <<searchType, maxFiles, docPaths, files, branch, packages,
                   defaultBranch, probes, result>>
    /\ UNCHANGED besidesRetriever

\* lines 226-269: one member of a documentation directory
DocsMember ==
    /\ pc = "docsMember"
    /\ IF sub > Len(listing) \/ AtCap
       THEN /\ pc' = "docsDir"
            /\ idx' = idx + 1
            /\ UNCHANGED <<files, sub>>
            /\ NoRequest
       ELSE LET file == listing[sub]
                filePath == docDirs[idx] \o "/" \o file.name
            IN  /\ IF file.type = "file"
                      /\ (endsWith(file.name, ".md") \/ endsWith(file.name, ".rst"))
                      /\ ~shouldSkipFile(filePath)
                   THEN /\ \E o \in FileFetch :
                              /\ files' = IF o.kind = "ok"
                                          THEN Append(files, DocEntry(filePath, file.name, o))
                                          ELSE files
                              /\ Outcome(o.kind, TRUE)     \* line 266
                        /\ Request(defaultBranch)      \* fetch(file.download_url)
                   ELSE /\ UNCHANGED files
                        /\ NoRequest
                /\ sub' = sub + 1
                /\ UNCHANGED <<pc, idx>>
    /\ UNCHANGED <<searchType, maxFiles, docPaths, branch, listing, packages,
                   defaultBranch, probes, result>>
    /\ UNCHANGED besidesRetriever

\* lines 278-284: guard of the type-definition pass
TypesBegin ==
    /\ pc = "types"
    /\ pc' = IF ~AtCap /\ searchType \in {"types", "all"} THEN "typesLoc" ELSE "mono"
    /\ idx' = 1
    /\ NoRequest
    /\ UNCHANGED <<searchType, maxFiles, docPaths, files, branch, listing, sub,
                   packages, defaultBranch, probes, result>>
    /\ UNCHANGED besidesRetriever

\* lines 283-298: list one type-definition location
TypesLocation ==
    /\ pc = "typesLoc"
    /\ IF idx > Len(typeLocations) \/ AtCap
       THEN /\ pc' = "mono"
            /\ idx' = 1
            /\ UNCHANGED <<listing, sub>>
            /\ NoRequest
       ELSE /\ \E o \in ListingFetch(typeLocations[idx], TypesListing) :
                  /\ IF o.kind = "ok" /\ o.array
                     THEN pc' = "typesMember" /\ listing' = o.entries /\ sub' = 1 /\ idx' = idx
                     ELSE IF o.kind = "throw"
                     THEN pc' = "mono" /\ idx' = 1 /\ UNCHANGED <<listing, sub>>
                     ELSE pc' = pc /\ idx' = idx + 1 /\ UNCHANGED <<listing, sub>>
                  /\ Outcome(o.kind, TRUE)         \* line 329
            /\ Request(defaultBranch)
    /\ UNCHANGED <<searchType, maxFiles, docPaths, files, branch, packages,
                   defaultBranch, probes, result>>
    /\ UNCHANGED besidesRetriever

\* lines 299-324: one member of a type-definition location
TypesMember ==
    /\ pc = "typesMember"
    /\ IF sub > Len(listing) \/ AtCap
       THEN /\ pc' = "typesLoc"
            /\ idx' = idx + 1
            /\ UNCHANGED <<files, sub>>
            /\ NoRequest
       ELSE LET file == listing[sub]
                location == typeLocations[idx]
                filePath == IF location # "" THEN location \o "/" \o file.name
                            ELSE file.name
            IN  /\ IF file.type = "file" /\ endsWith(file.name, ".d.ts")
                   THEN /\ \E o \in FileFetch :
                              /\ files' = IF o.kind = "ok"
                                          THEN Append(files, FileEntry(filePath, "d.ts", o.len, NotJson))
                                          ELSE files
                              /\ Outcome(o.kind, TRUE)     \* line 321
                        /\ Request(defaultBranch)      \* fetch(file.download_url)
                   ELSE /\ UNCHANGED files
                        /\ NoRequest
                /\ sub' = sub + 1
                /\ UNCHANGED <<pc, idx>>
    /\ UNCHANGED <<searchType, maxFiles, docPaths, branch, listing, packages,
                   defaultBranch, probes, result>>
    /\ UNCHANGED besidesRetriever

\* lines 334-343: guard of the monorepo pass, list the packages directory
MonoBegin ==
    /\ pc = "mono"
    /\ IF ~AtCap /\ searchType \in {"types", "all"}
       THEN /\ \E o \in ListingFetch("packages", PackagesListing) :
                  /\ IF o.kind = "ok" /\ o.array
                     THEN pc' = "monoPkg" /\ packages' = o.entries
                     ELSE pc' = "manifest" /\ UNCHANGED packages
                  /\ Outcome(o.kind, FALSE)        \* lines 398-401: console.log only
            /\ Request(defaultBranch)
       ELSE /\ pc' = "manifest"
            /\ UNCHANGED packages
            /\ NoRequest
    /\ idx' = 1
    /\ UNCHANGED <<searchType, maxFiles, docPaths, files, branch, listing, sub,
                   defaultBranch, probes, result>>
    /\ UNCHANGED besidesRetriever

\* lines 346-364: one package: fetch and push its manifest
MonoPackage ==
    /\ pc = "monoPkg"
    /\ IF idx > Len(packages) \/ AtCap
       THEN /\ pc' = "manifest"
            /\ UNCHANGED <<files, idx>>
            /\ NoRequest
       ELSE LET pkg == packages[idx]
            IN  IF pkg.type = "dir"
                THEN /\ \E o \in PackageManifestFetch :
                           /\ IF o.kind = "ok"
                              THEN /\ files' = Append(files,
                                          FileEntry("packages/" \o pkg.name \o "/package.json",
                                                    "json", o.len, o.pkg))
                                   /\ pc' = "monoPkgList"
                                   /\ idx' = idx
                              ELSE IF o.kind = "throw"
                              THEN pc' = "manifest" /\ UNCHANGED <<files, idx>>
                              ELSE pc' = pc /\ idx' = idx + 1 /\ UNCHANGED files
                           /\ Outcome(o.kind, FALSE)   \* lines 398-401
                     /\ Request(defaultBranch)
                ELSE /\ idx' = idx + 1
                     /\ UNCHANGED <<pc, files>>
                     /\ NoRequest
    /\ UNCHANGED <<searchType, maxFiles, docPaths, branch, listing, sub, packages,
                   defaultBranch, probes, result>>
    /\ UNCHANGED besidesRetriever

\* lines 366-373: list the package's directory
MonoPackageListing ==
    /\ pc = "monoPkgList"
    /\ \E o \in ListingFetch("packages/" \o packages[idx].name, PackageListing) :
          /\ IF o.kind = "ok" /\ ~AtCap
             THEN IF o.array
                  THEN pc' = "monoMember" /\ listing' = o.entries /\ sub' = 1 /\ idx' = idx
                  ELSE pc' = "manifest" /\ UNCHANGED <<listing, sub, idx>>
             ELSE IF o.kind = "throw"
             THEN pc' = "manifest" /\ UNCHANGED <<listing, sub, idx>>
             ELSE pc' = "monoPkg" /\ idx' = idx + 1 /\ UNCHANGED <<listing, sub>>
          /\ Outcome(o.kind, FALSE)                \* lines 398-401
    /\ Request(defaultBranch)
    /\ UNCHANGED <<searchType, maxFiles, docPaths, files, branch, packages,
                   defaultBranch, probes, result>>
    /\ UNCHANGED besidesRetriever

\* lines 374-392: one member of a package's directory
MonoMember ==
    /\ pc = "monoMember"
    /\ IF sub > Len(listing) \/ AtCap
       THEN /\ pc' = "monoPkg"
            /\ idx' = idx + 1
            /\ UNCHANGED <<files, sub>>
            /\ NoRequest
       ELSE LET file == listing[sub]
            IN  /\ IF file.type = "file" /\ file.name \in PackageEntryNames
                   THEN /\ \E o \in FileFetch :
                              /\ files' = IF o.kind = "ok"
                                          THEN Append(files,
                                                 FileEntry("packages/" \o packages[idx].name
                                                             \o "/" \o file.name,
                                                           Extension(file.name, "unknown"),
                                                           o.len, NotJson))
                                          ELSE files
                              /\ Outcome(o.kind, TRUE)     \* line 389
                        /\ Request(defaultBranch)      \* fetch(file.download_url)
                   ELSE /\ UNCHANGED files
                        /\ NoRequest
                /\ sub' = sub + 1
                /\ UNCHANGED <<pc, idx>>
    /\ UNCHANGED <<searchType, maxFiles, docPaths, branch, listing, packages,
                   defaultBranch, probes, result>>
    /\ UNCHANGED besidesRetriever

\* files.find(f => f.path === 'package.json')
HasPackageJson == \E k \in 1..Len(files) : files[k].path = "package.json"
packageJsonFile ==
    files[CHOOSE k \in 1..Len(files) :
            /\ files[k].path = "package.json"
            /\ \A j \in 1..(k - 1) : files[j].path # "package.json"]

\* the manifest is read when lines 405-413 let it be parsed
ManifestReadable ==
    /\ searchType \in {"source", "all"}
    /\ HasPackageJson
    /\ ~packageJsonFile.truncated
    /\ packageJsonFile.pkg.parses

\* lines 405-438: fetch the manifest's main/module/browser file
ManifestMain ==
    /\ pc = "manifest"
    /\ IF ManifestReadable
       THEN LET pkg == packageJsonFile.pkg
                mainFile == OrElse(pkg.main, OrElse(pkg.module, pkg.browser))
            IN  /\ IF mainFile # "" /\ ~AtCap
                   THEN /\ \E o \in FileFetch :
                              /\ files' = IF o.kind = "ok"
                                          THEN Append(files,
                                                 FileEntry(mainFile, Extension(mainFile, "js"),
                                                           o.len, NotJson))
                                          ELSE files
                              /\ Outcome(o.kind, TRUE)     \* line 436
                        /\ Request(branch)
                   ELSE /\ UNCHANGED files
                        /\ NoRequest
                /\ pc' = "manifestTypes"
       ELSE /\ pc' = "return"
            /\ UNCHANGED files
            /\ NoRequest
    /\ UNCHANGED <<searchType, maxFiles, docPaths, branch, idx, listing, sub, packages,
                   defaultBranch, probes, result>>
    /\ UNCHANGED besidesRetriever

\* lines 440-461: fetch the manifest's types/typings file
ManifestTypes ==
    /\ pc = "manifestTypes"
    /\ LET pkg == packageJsonFile.pkg
           typesFile == OrElse(pkg.types, pkg.typings)
       IN  IF typesFile # "" /\ ~AtCap
           THEN /\ \E o \in FileFetch :
                      /\ files' = IF o.kind = "ok"
                                  THEN Append(files, FileEntry(typesFile, "d.ts", o.len, NotJson))
                                  ELSE files
                      /\ Outcome(o.kind, TRUE)             \* line 459
                /\ Request(branch)
           ELSE /\ UNCHANGED files
                /\ NoRequest
    /\ pc' = "return"
    /\ UNCHANGED <<searchType, maxFiles, docPaths, branch, idx, listing, sub, packages,
                   defaultBranch, probes, result>>
    /\ UNCHANGED besidesRetriever

\* lines 469-483: the structured result
Return ==
    /\ pc = "return"
    /\ result' = [files |-> files, success |-> Succeeded(files),
                   error |-> IF Len(files) = 0 THEN NoFilesFound ELSE Undefined,
                   returned |-> TRUE]
    /\ pc' = "done"
    /\ UNCHANGED <<searchType, maxFiles, docPaths, files, branch, idx, listing, sub,
                   packages, defaultBranch, probes, usedRefs, reqAtCap, errorLog>>
    /\ UNCHANGED besidesRetriever

(***************************************************************************)
(* Rest states of the parser, the extractor, the crawler and the resolver   *)
(***************************************************************************)
NoSection == [open |-> FALSE, heading |-> "", level |-> 0]

ParserIdle ==
    /\ lines = <<>> /\ lineNo = 0 /\ sections = <<>> /\ codeBlocks = <<>>
    /\ links = <<>> /\ currentSection = NoSection /\ currentContent = <<>>
    /\ inCodeBlock = FALSE /\ currentCodeBlock = <<>>
    /\ parsed = [sections |-> <<>>, codeBlocks |-> <<>>, links |-> <<>>, returned |-> FALSE]

ExtractorIdle ==
    /\ epc = "idle" /\ content = "" /\ contentType = "" /\ apis = <<>>
    /\ uniqueApis = <<>> /\ seen = {} /\ apiNo = 0
    /\ extracted = [apis |-> <<>>, success |-> FALSE]
    /\ firstResult = {} /\ previous = <<"", "">> /\ calls = 0 /\ raised = FALSE

CrawlerIdle ==
    /\ cpc = "idle" /\ url = "" /\ maxPages = 0 /\ patterns = [domain |-> ""]
    /\ scraped = <<>> /\ visitedUrls = {} /\ urlsToVisit = <<>>
    /\ pagesScraped = 0 /\ currentUrl = ""
    /\ scrapeResult = [apis |-> <<>>, pagesScraped |-> 0, success |-> FALSE,
                       error |-> Undefined, returned |-> FALSE]
    /\ requests = <<>>

\* lines 885-898: what the outer catch of analyzeRepository returns
Unresolved(message) ==
    [primaryLanguage |-> "unknown", languages |-> <<>>, documentationSources |-> <<>>,
     packageManager |-> [defined |-> FALSE],
     projectStructure |-> [type |-> "standard", mainPath |-> Undefined,
                           packages |-> [defined |-> FALSE],
                           hasDocs |-> FALSE, hasTests |-> FALSE, hasExamples |-> FALSE],
     success |-> FALSE, error |-> message, returned |-> TRUE]

ResolverIdle ==
    /\ apc = "idle" /\ repoUrl = ""
    /\ repoData = [homepage |-> "", has_wiki |-> FALSE, name |-> ""]
    /\ languages = <<>> /\ primaryLanguage = "" /\ documentationSources = <<>>
    /\ packageManager = [defined |-> FALSE]
    /\ projectStructure = Unresolved("").projectStructure
    /\ analysis = [Unresolved(Undefined) EXCEPT !.returned = FALSE]
    /\ remoteCalls = <<>>

\* part_007 lines 15-23: the page as mounted
StepIds == <<"1", "2", "3", "4">>
NoOutput == [set |-> FALSE, markdown |-> ""]
PageIdle ==
    /\ hpc = "idle" /\ isLoading = FALSE /\ output = NoOutput /\ shownRepoUrl = ""
    /\ workflowSteps = [i \in 1..4 |-> [id |-> StepIds[i], status |-> "pending"]]
    /\ outcomes = <<>>

\* every tool constructed, none called yet; the page mounted
AtRest == Idle /\ ParserIdle /\ ExtractorIdle /\ CrawlerIdle /\ ResolverIdle /\ sinkOk = TRUE
          /\ PageIdle

(***************************************************************************)
(* Specification of the retriever                                          *)
(***************************************************************************)
InitRetriever == AtRest

NextRetriever ==
    \/ Execute
    \/ ProbeBranch
    \/ CandidateStep
    \/ DocsBegin
    \/ DocsDir
    \/ DocsMember
    \/ TypesBegin
    \/ TypesLocation
    \/ TypesMember
    \/ MonoBegin
    \/ MonoPackage
    \/ MonoPackageListing
    \/ MonoMember
    \/ ManifestMain
    \/ ManifestTypes
    \/ Return

SpecRetriever == InitRetriever /\ [][NextRetriever]_vars

(***************************************************************************)
(* Claims about the retriever, checked under SpecRetriever                 *)
(***************************************************************************)

\* C1: for every phase and every maxFiles = N >= 0, whatever the remote
\* answers, the file list never holds more than N entries, in any sub-pass,
\* and neither does the list that is returned.
PhaseBudget ==
    /\ Len(files) <= maxFiles
    /\ result.returned => Len(result.files) <= maxFiles

\* C1 witness: a run returned exactly maxFiles > 1 files that come from two
\* different sub-passes (candidate table, then a monorepo package).
PhaseBudgetReached ==
    /\ pc = "done" /\ result.returned
    /\ maxFiles > 1 /\ Len(result.files) = maxFiles
    /\ result.files[1].path \in RemoteFiles
    /\ startsWith(result.files[maxFiles].path, "packages/")

IsManifestPath(path) == path = "package.json" \/ endsWith(path, "/package.json")

\* C2: every returned file whose fetched content is longer than 200000
\* characters is marked truncated and stored with at most 200000 characters,
\* in whichever sub-pass it was fetched, except a package manifest, which is
\* stored whole.
TruncationBoundary ==
    result.returned =>
        \A k \in 1..Len(result.files) :
            LET f == result.files[k]
            IN  f.fetched > TruncateChars =>
                    IF IsManifestPath(f.path)
                    THEN f.len = f.fetched
                    ELSE f.truncated /\ f.len <= TruncateChars

\* C3: no path of the returned file list contains CHANGELOG, in any letter case.
DenylistEnforcement ==
    result.returned =>
        \A k \in 1..Len(result.files) :
            ~includes(toUpperCase(result.files[k].path), "CHANGELOG")

\* the branch the probes select: first OK probe wins, else main
ResolvedBranch ==
    IF probes = <<TRUE>> THEN "main"
    ELSE IF probes = <<FALSE, TRUE>> THEN "master"
    ELSE "main"

\* C4: main is probed first and used if OK; if it is not OK and the master
\* probe is OK, master is used; if neither is OK the branch is main; and
\* every fetch made after the probes reads the branch so chosen.
BranchFallback ==
    pc \notin {"idle", "probe"} /\ (pc = "done" => result.success) =>
        /\ branch = ResolvedBranch
        /\ usedRefs \subseteq {branch}

NoRequestAborts ==
    result.returned =>
        /\ result.error \in {Undefined, NoFilesFound}
        /\ result.files = files

(***************************************************************************)
(* parseMarkdown.execute                                                   *)
(***************************************************************************)
MaxLines == 4

\* lines a markdown input is made of (' stands for the backquote)
LinePool == {"", "# A", "## B c", "####### D", "  t ", "'''", " '''js", "[a](u)"}

\* End-to-end example A of the documentation
ExampleA == "# Intro\n\nHello\n\n## API\n* 'foo(x)' - does foo\n"

MarkdownInputs ==
    {join(ls, "\n") : ls \in UNION {[1..n -> LinePool] : n \in 1..MaxLines}}
    \cup {ExampleA}

Fence == "'''"

\* /\[([^\]]+)\]\(([^)]+)\)/g
LinkRegex ==
    Cat(<<Lit("["), Grp(1, Plus(NotSet({"]"}))), Lit("]"),
          Lit("("), Grp(2, Plus(NotSet({")"}))), Lit(")")>>)
\* /\(([^)]+)\)/
UrlRegex == Cat(<<Lit("("), Grp(1, Plus(NotSet({")"}))), Lit(")")>>)
HeadingRegexAnyDepth ==
    Cat(<<Bol(FALSE), Grp(1, Plus(Lit("#"))), Plus(Space),
          Grp(2, Plus(Dot)), Eol(FALSE)>>)
\* /^(#{1,6})\s+(.+)$/
HeadingRegex ==
    Cat(<<Bol(FALSE), Grp(1, Rep(Lit("#"), 1, 6, FALSE)), Plus(Space),
          Grp(2, Plus(Dot)), Eol(FALSE)>>)

\* line.trim().startsWith('```')
IsFenceLine(line) == startsWith(trim(line), Fence)

\* lines 1058-1064: the link targets of one line
LineLinks(line) ==
    LET linkMatches == execAll(LinkRegex, 2, line, 1)
    IN  [k \in 1..Len(linkMatches) |->
            LET urlMatch == exec(UrlRegex, 1, Whole(line, linkMatches[k]), 1)
            IN  IF urlMatch.ok THEN Group(urlMatch, 1) ELSE ""]

\* codeBlocks.push(currentCodeBlock.join('\n'))
CommittedBlockTrimmed(buf) == trim(join(buf, "\n"))
CommittedBlock(buf) == join(buf, "\n")

\* { ...currentSection, content: currentContent.join('\n').trim() }
ClosedSection(sec, buf) ==
    [heading |-> sec.heading, level |-> sec.level, content |-> trim(join(buf, "\n"))]

\* lines 1091-1097: add the last section
FinalSectionsForgotten == sections
FinalSections ==
    IF currentSection.open
    THEN Append(sections, ClosedSection(currentSection, currentContent))
    ELSE sections

\* lines 1019-1035: split the input, start with empty accumulators
Parse ==
    /\ lineNo = 0 /\ ~parsed.returned
    /\ \E c \in MarkdownInputs : lines' = split(c, "\n")
    /\ lineNo' = 1
    /\ sections' = <<>> /\ codeBlocks' = <<>> /\ links' = <<>>
    /\ currentSection' = NoSection /\ currentContent' = <<>>
    /\ inCodeBlock' = FALSE /\ currentCodeBlock' = <<>>
    /\ UNCHANGED parsed
    /\ UNCHANGED besidesParser

\* lines 1037-1089: one iteration of the loop over the lines
ParseLine ==
    /\ lineNo \in 1..Len(lines) /\ ~parsed.returned
    /\ LET line == lines[lineNo]
           headingMatch == exec(HeadingRegex, 2, line, 1)
       IN  IF IsFenceLine(line)
           THEN /\ IF inCodeBlock
                   THEN /\ codeBlocks' = Append(codeBlocks, CommittedBlock(currentCodeBlock))
                        /\ currentCodeBlock' = <<>>
                        /\ inCodeBlock' = FALSE
                   ELSE /\ inCodeBlock' = TRUE
                        /\ UNCHANGED <<codeBlocks, currentCodeBlock>>
                /\ UNCHANGED <<sections, links, currentSection, currentContent>>
           ELSE IF inCodeBlock
           THEN /\ currentCodeBlock' = Append(currentCodeBlock, line)
                /\ UNCHANGED <<sections, codeBlocks, links, currentSection,
                               currentContent, inCodeBlock>>
           ELSE /\ links' = links \o LineLinks(line)
                /\ IF headingMatch.ok
                   THEN /\ sections' = IF currentSection.open
                                       THEN Append(sections,
                                                   ClosedSection(currentSection, currentContent))
                                       ELSE sections
                        /\ currentSection' = [open |-> TRUE,
                                              heading |-> trim(Group(headingMatch, 2)),
                                              level |-> Len(Group(headingMatch, 1))]
                        /\ currentContent' = <<>>
                   ELSE /\ currentContent' = IF currentSection.open
                                             THEN Append(currentContent, line)
                                             ELSE currentContent
                        /\ UNCHANGED <<sections, currentSection>>
                /\ UNCHANGED <<codeBlocks, inCodeBlock, currentCodeBlock>>
    /\ lineNo' = lineNo + 1
    /\ UNCHANGED <<lines, parsed>>
    /\ UNCHANGED besidesParser

\* lines 1091-1114: close the last section, return the result
ParseReturn ==
    /\ lineNo = Len(lines) + 1 /\ lineNo > 1 /\ ~parsed.returned
    /\ sections' = FinalSections
    /\ parsed' = [sections |-> sections', codeBlocks |-> codeBlocks, links |-> links,
                  returned |-> TRUE]
    /\ UNCHANGED <<lines, lineNo, codeBlocks, links, currentSection, currentContent,
                   inCodeBlock, currentCodeBlock>>
    /\ UNCHANGED besidesParser

InitParser == AtRest

NextParser ==
    \/ Parse
    \/ ParseLine
    \/ ParseReturn

SpecParser == InitParser /\ [][NextParser]_vars

(***************************************************************************)
(* Claims about the parser, checked under SpecParser                       *)
(***************************************************************************)

\* the input lines outside code blocks, fence lines excluded
RECURSIVE OutsideCode(_, _)
OutsideCode(ls, inCode) ==
    IF Len(ls) = 0 THEN <<>>
    ELSE IF IsFenceLine(Head(ls)) THEN OutsideCode(Tail(ls), ~inCode)
    ELSE IF inCode THEN OutsideCode(Tail(ls), inCode)
    ELSE <<Head(ls)>> \o OutsideCode(Tail(ls), inCode)

\* the line bodies of the fenced blocks: all those opened (the one still open
\* at the end of the input included), and those that are closed too
RECURSIVE FencedBlocks(_, _, _, _)
FencedBlocks(ls, inCode, buf, unclosedToo) ==
    IF Len(ls) = 0 THEN (IF inCode /\ unclosedToo THEN <<buf>> ELSE <<>>)
    ELSE IF IsFenceLine(Head(ls))
    THEN IF inCode THEN <<buf>> \o FencedBlocks(Tail(ls), FALSE, <<>>, unclosedToo)
         ELSE FencedBlocks(Tail(ls), TRUE, <<>>, unclosedToo)
    ELSE IF inCode THEN FencedBlocks(Tail(ls), inCode, Append(buf, Head(ls)), unclosedToo)
    ELSE FencedBlocks(Tail(ls), inCode, buf, unclosedToo)
OpenedBlocks == FencedBlocks(lines, FALSE, <<>>, TRUE)
ClosedBlocks == FencedBlocks(lines, FALSE, <<>>, FALSE)

IsHeadingLine(line) == exec(HeadingRegex, 2, line, 1).ok

\* a line as it is to reappear: a heading line by its heading text, any
\* other line as it is, both without surrounding white space
Shown(line) ==
    LET m == exec(HeadingRegex, 2, line, 1)
    IN  IF m.ok THEN trim(Group(m, 2)) ELSE trim(line)

RECURSIVE NonBlankShown(_)
NonBlankShown(ls) ==
    IF Len(ls) = 0 THEN <<>>
    ELSE IF trim(Head(ls)) = "" THEN NonBlankShown(Tail(ls))
    ELSE <<Shown(Head(ls))>> \o NonBlankShown(Tail(ls))

RECURSIVE FromFirstHeading(_)
FromFirstHeading(ls) ==
    IF Len(ls) = 0 THEN <<>>
    ELSE IF IsHeadingLine(Head(ls)) THEN ls
    ELSE FromFirstHeading(Tail(ls))

\* the body lines of a section as they reappear
RECURSIVE NonBlankTrimmed(_)
NonBlankTrimmed(ls) ==
    IF Len(ls) = 0 THEN <<>>
    ELSE IF trim(Head(ls)) = "" THEN NonBlankTrimmed(Tail(ls))
    ELSE <<trim(Head(ls))>> \o NonBlankTrimmed(Tail(ls))

\* the returned sections read in order: heading, then the body's non-blank lines
RECURSIVE Reconstructed(_)
Reconstructed(secs) ==
    IF Len(secs) = 0 THEN <<>>
    ELSE <<Head(secs).heading>>
         \o NonBlankTrimmed(split(Head(secs).content, "\n"))
         \o Reconstructed(Tail(secs))

\* C7 as stated: the headings and bodies of the returned sections, in order,
\* are exactly the non-blank lines of the input outside code blocks.
ParserRoundTrip ==
    parsed.returned =>
        Reconstructed(parsed.sections) = NonBlankShown(OutsideCode(lines, FALSE))

\* C7 amended: the headings and bodies of the returned sections, in order, are
\* exactly the non-blank lines outside code blocks from the first heading line
\* on (a heading line by its heading text, lines compared without surrounding
\* white space); the lines before the first heading are dropped.
ParserRoundTripAfterFirstHeading ==
    parsed.returned =>
        Reconstructed(parsed.sections)
            = NonBlankShown(FromFirstHeading(OutsideCode(lines, FALSE)))

\* C7 witness: a returned parse with two sections, a non-empty body, and a
\* non-blank line before the first heading.
ParserRoundTripDropsPreamble ==
    /\ parsed.returned
    /\ Len(parsed.sections) >= 2
    /\ \E k \in 1..Len(parsed.sections) : parsed.sections[k].content # ""
    /\ trim(lines[1]) # "" /\ ~IsHeadingLine(lines[1]) /\ ~IsFenceLine(lines[1])

\* C8 as stated: codeBlocks holds, in order, one element per fenced block
\* opened in the input, its lines joined with line breaks, fences excluded.
CodeBlocksVerbatim ==
    parsed.returned =>
        parsed.codeBlocks = [k \in 1..Len(OpenedBlocks) |-> join(OpenedBlocks[k], "\n")]

\* C8 amended: codeBlocks holds, in order, one element per fenced block that is
\* opened and closed in the input, its lines joined with line breaks, fences
\* excluded; a block still open at the end of the input is not returned.
ClosedCodeBlocksVerbatim ==
    parsed.returned =>
        parsed.codeBlocks = [k \in 1..Len(ClosedBlocks) |-> join(ClosedBlocks[k], "\n")]

\* C8 witness: a returned parse with a closed block of white-space-padded
\* text and a later block that is never closed.
CodeBlockLeftOpen ==
    /\ parsed.returned
    /\ Len(parsed.codeBlocks) >= 1
    /\ parsed.codeBlocks[1] # trim(parsed.codeBlocks[1])
    /\ Len(OpenedBlocks) > Len(ClosedBlocks)


(***************************************************************************)
(* extractAllApis.execute: the pattern passes for markdown / rst           *)
(***************************************************************************)
BT == "'"                                   \* stands for the backquote
Backtick == Lit(BT)
Identifier == Cat(<<Set(IdStart), Star(Word)>>)                   \* [a-zA-Z_][\w]*
Dotted == Cat(<<Set(IdStart), Star(Set(WordChars \cup {"."}))>>)  \* [a-zA-Z_][\w.]*
\* [-:] and the two long dashes, which no input of the model contains
DashOrColon == Set({"-", ":"})

Api(signature, description, category) ==
    [signature |-> signature, description |-> description, category |-> category]

\* /```[\w]*\n([\s\S]*?)```/g
codeBlockRegex ==
    Cat(<<Text(Fence), Star(Word), Lit("\n"), Grp(1, LazyStar(AnyChar)), Text(Fence)>>)

functionPatterns == <<
    \* /([a-zA-Z_][\w.]*)\s*\([^)]*\)/g
    Cat(<<Grp(1, Dotted), Star(Space), Lit("("), Star(NotSet({")"})), Lit(")")>>),
    \* /([a-zA-Z_][\w]*)::\w+/g
    Cat(<<Grp(1, Identifier), Text("::"), Plus(Word)>>),
    \* /([a-zA-Z_][\w]*)\.\w+/g
    Cat(<<Grp(1, Identifier), Lit("."), Plus(Word)>> ) >>

\* [a-zA-Z_][\w._]*\([^`]*\)
CallShape ==
    Cat(<<Set(IdStart), Star(Set(WordChars \cup {".", "_"})), Lit("("),
          Star(NotSet({BT})), Lit(")")>>)

inlinePatterns == <<
    \* /`([a-zA-Z_][\w._]*\([^`]*\))`/g
    Cat(<<Backtick, Grp(1, CallShape), Backtick>>),
    \* /`([a-zA-Z_][\w.]*)`\s*[-:]\s*([^.\n]{5,50})/g
    Cat(<<Backtick, Grp(1, Dotted), Backtick, Star(Space), DashOrColon, Star(Space),
          Grp(2, Rep(NotSet({".", "\n"}), 5, 50, FALSE))>>),
    \* /\*\*`([a-zA-Z_][\w._]*\([^`]*\))`\*\*/g
    Cat(<<Text("**"), Backtick, Grp(1, CallShape), Backtick, Text("**")>>),
    \* /`_\.([a-zA-Z_][\w]*)\([^`]*\)`/g
    Cat(<<Backtick, Text("_."), Grp(1, Identifier), Lit("("), Star(NotSet({BT})),
          Lit(")"), Backtick>>) >>

\* \s*[-:]\s*(.+)$  with the m flag
DashThenProse == Cat(<<Star(Space), DashOrColon, Star(Space), Grp(2, Plus(Dot)), Eol(TRUE)>>)

listPatterns == <<
    \* /^[\*\-]\s*`([^`]+)`\s*[-:]\s*(.+)$/gm
    Cat(<<Bol(TRUE), Set({"*", "-"}), Star(Space), Backtick, Grp(1, Plus(NotSet({BT}))),
          Backtick, DashThenProse>>),
    \* /^\d+\.\s*`([^`]+)`\s*[-:]\s*(.+)$/gm
    Cat(<<Bol(TRUE), Plus(Set(Chars(Digits))), Lit("."), Star(Space), Backtick,
          Grp(1, Plus(NotSet({BT}))), Backtick, DashThenProse>>),
    \* /^[\*\-]\s*\*\*([^*]+)\*\*\s*[-:]\s*(.+)$/gm
    Cat(<<Bol(TRUE), Set({"*", "-"}), Star(Space), Text("**"), Grp(1, Plus(NotSet({"*"}))),
          Text("**"), DashThenProse>>) >>

\* /\|\s*`?([^|`]+)`?\s*\|([^|]*)\|/g
tableRowRegex ==
    Cat(<<Lit("|"), Star(Space), Opt(Backtick), Grp(1, Plus(NotSet({"|", BT}))),
          Opt(Backtick), Star(Space), Lit("|"), Grp(2, Star(NotSet({"|"}))), Lit("|")>>)

\* /^#{2,4}\s+`?([a-zA-Z_][\w.()]*)`?$/gm
headerRegex ==
    Cat(<<Bol(TRUE), Rep(Lit("#"), 2, 4, FALSE), Plus(Space), Opt(Backtick),
          Grp(1, Cat(<<Set(IdStart), Star(Set(WordChars \cup {".", "(", ")"}))>>)),
          Opt(Backtick), Eol(TRUE)>>)

\* x || dflt, for a capture group or a string
Either(x, dflt) == IF x = Undefined \/ x = "" THEN dflt ELSE x

\* the entries a loop over matches pushes: each match gives <<>> or <<api>>
RECURSIVE Concat(_)
Concat(ss) == IF Len(ss) = 0 THEN <<>> ELSE Head(ss) \o Concat(Tail(ss))

\* lines 44-56: the three function patterns over one code block
CodeBlockEntry(codeBlock, funcMatch) ==
    LET sig == trim(Whole(codeBlock, funcMatch))
    IN  IF sig # "" /\ ~startsWith(sig, "//") /\ ~startsWith(sig, "#")
        THEN <<Api(sig, "Extracted from code block", "code-block")>>
        ELSE <<>>
CodeBlockApis(codeBlock) ==
    LET OfPattern(k) ==
            LET E(m) == CodeBlockEntry(codeBlock, m)
            IN  (LET Each(hits) == Concat([hit \in 1..Len(hits) |-> E(hits[hit])])
                 IN  Each(execAll(functionPatterns[k], 1, codeBlock, 1)))
    IN  OfPattern(1) \o OfPattern(2) \o OfPattern(3)

\* lines 33-57: every fenced code block of the content
CodeBlockPass(c) ==
    LET E(m) == CodeBlockApis(Group(m, 1))
    IN  (LET Each(hits) == Concat([hit \in 1..Len(hits) |-> E(hits[hit])])
         IN  Each(execAll(codeBlockRegex, 1, c, 1)))

\* lines 67-80: inline code
InlineEntry(match) ==
    LET signature == Group(match, 1)
        description == Either(Group(match, 2), "API method")
    IN  IF (signature # "" /\ ~includes(signature, " ")) \/ includes(signature, "(")
        THEN <<Api(signature, trim(description), "inline")>>
        ELSE <<>>
InlinePass(c) ==
    LET OfPattern(k) == (LET Each(hits) == Concat([hit \in 1..Len(hits) |-> InlineEntry(hits[hit])])
                         IN  Each(execAll(inlinePatterns[k], 2, c, 1)))
    IN  OfPattern(1) \o OfPattern(2) \o OfPattern(3) \o OfPattern(4)

\* lines 89-100: bullet and numbered items
ListEntry(match) ==
    <<Api(trim(Group(match, 1)), Either(trim(Group(match, 2)), "API method"), "list")>>
ListPass(c) ==
    LET OfPattern(k) == (LET Each(hits) == Concat([hit \in 1..Len(hits) |-> ListEntry(hits[hit])])
                         IN  Each(execAll(listPatterns[k], 2, c, 1)))
    IN  OfPattern(1) \o OfPattern(2) \o OfPattern(3)

\* lines 103-114: table rows
TableEntry(match) ==
    LET signature == trim(Group(match, 1))
        description == trim(Group(match, 2))
    IN  IF signature # "" /\ (includes(signature, "(") \/ includes(signature, ".")
                              \/ includes(signature, "::"))
        THEN <<Api(signature, Either(description, "API method"), "table")>>
        ELSE <<>>
TablePass(c) == (LET Each(hits) == Concat([hit \in 1..Len(hits) |-> TableEntry(hits[hit])])
                 IN  Each(execAll(tableRowRegex, 2, c, 1)))

\* lines 117-127: section headers
HeaderEntry(match) ==
    LET signature == trim(Group(match, 1))
    IN  IF signature # "" /\ (includes(signature, "(") \/ includes(signature, "."))
        THEN <<Api(signature, "API section", "header")>>
        ELSE <<>>
HeaderPass(c) == (LET Each(hits) == Concat([hit \in 1..Len(hits) |-> HeaderEntry(hits[hit])])
                  IN  Each(execAll(headerRegex, 1, c, 1)))


(***************************************************************************)
(* extractAllApis.execute: typed declarations (d.ts, ts) and script (js)   *)
(***************************************************************************)
\* [a-zA-Z_$][a-zA-Z0-9_$]*
JsName == Cat(<<Set(IdStart \cup {"$"}), Star(Set(WordChars \cup {"$"}))>>)
Keyword(s) == Cat(<<Text(s), Plus(Space)>>)                       \* s\s+
Params(n) == Cat(<<Lit("("), Grp(n, Star(NotSet({")"}))), Lit(")")>>)   \* \(([^)]*)\)

\* /export\s+(?:declare\s+)?(?:function|const|let|var|class|interface|type|enum)\s+(NAME)/g
exportRegex ==
    Cat(<<Keyword("export"), Opt(Keyword("declare")),
          Alt(<<Text("function"), Text("const"), Text("let"), Text("var"), Text("class"),
                Text("interface"), Text("type"), Text("enum")>>),
          Plus(Space), Grp(1, JsName)>>)
\* /(?:export\s+)?(?:function\s+)?(NAME)\s*(<[^>]*>)?\s*\(([^)]*)\)\s*:\s*([^;{]+)/g
typedMethodRegex ==
    Cat(<<Opt(Keyword("export")), Opt(Keyword("function")), Grp(1, JsName), Star(Space),
          Opt(Grp(2, Cat(<<Lit("<"), Star(NotSet({">"})), Lit(">")>>))), Star(Space),
          Params(3), Star(Space), Lit(":"), Star(Space), Grp(4, Plus(NotSet({";", "{"})))>>)
\* /(NAME)\s*:\s*\(([^)]*)\)\s*=>\s*([^;,}]+)/g
propertyRegex ==
    Cat(<<Grp(1, JsName), Star(Space), Lit(":"), Star(Space), Params(2), Star(Space),
          Text("=>"), Star(Space), Grp(3, Plus(NotSet({";", ",", "}"})))>>)

\* lines 136-147
TypedMethodEntry(match) ==
    <<Api(Group(match, 1) \o Either(Group(match, 2), "") \o "(" \o Group(match, 3) \o ")",
          "Returns " \o trim(Group(match, 4)), "function")>>
\* lines 150-160
PropertyEntry(match) ==
    <<Api(Group(match, 1) \o "(" \o Group(match, 2) \o ")",
          "Returns " \o trim(Group(match, 3)), "method")>>
\* lines 163-172: an export is pushed unless a signature so far includes its name
RECURSIVE ExportEntries(_, _)
ExportEntries(ms, sofar) ==
    IF Len(ms) = 0 THEN sofar
    ELSE LET name == Group(Head(ms), 1)
         IN  ExportEntries(Tail(ms),
                 IF \E k \in 1..Len(sofar) : includes(sofar[k].signature, name)
                 THEN sofar
                 ELSE Append(sofar, Api(name, "Exported entity", "export")))
TypedPass(c) ==
    ExportEntries(execAll(exportRegex, 1, c, 1),
                  (LET Each(hits) == Concat([hit \in 1..Len(hits) |-> TypedMethodEntry(hits[hit])])
                   IN  Each(execAll(typedMethodRegex, 4, c, 1)))
                  \o (LET Each(hits) == Concat([hit \in 1..Len(hits) |-> PropertyEntry(hits[hit])])
                      IN  Each(execAll(propertyRegex, 3, c, 1))))

\* /(?:export\s+)?(?:async\s+)?function\s+(NAME)\s*\(([^)]*)\)/g
functionRegex ==
    Cat(<<Opt(Keyword("export")), Opt(Keyword("async")), Keyword("function"),
          Grp(1, JsName), Star(Space), Params(2)>>)
\* /(?:export\s+)?(?:const|let|var)\s+(NAME)\s*=\s*(?:async\s+)?\(([^)]*)\)\s*=>/g
arrowRegex ==
    Cat(<<Opt(Keyword("export")), Alt(<<Text("const"), Text("let"), Text("var")>>),
          Plus(Space), Grp(1, JsName), Star(Space), Lit("="), Star(Space),
          Opt(Keyword("async")), Params(2), Star(Space), Text("=>")>>)
\* /(NAME)\s*:\s*(?:async\s+)?function\s*\(([^)]*)\)/g
methodRegex ==
    Cat(<<Grp(1, JsName), Star(Space), Lit(":"), Star(Space), Opt(Keyword("async")),
          Text("function"), Star(Space), Params(2)>>)
\* /(?:static\s+)?(?:async\s+)?(NAME)\s*\(([^)]*)\)\s*{/g
classMethodRegex ==
    Cat(<<Opt(Keyword("static")), Opt(Keyword("async")), Grp(1, JsName), Star(Space),
          Params(2), Star(Space), Lit("{")>>)

NotMethodNames == {"constructor", "if", "for", "while", "switch"}

ScriptEntry(match, description, category) ==
    <<Api(Group(match, 1) \o "(" \o Group(match, 2) \o ")", description, category)>>
\* lines 183-218
ScriptPass(c) ==
    LET F(m) == ScriptEntry(m, "Function", "function")
        A(m) == ScriptEntry(m, "Arrow function", "function")
        M(m) == ScriptEntry(m, "Method", "method")
        K(m) == IF Group(m, 1) \in NotMethodNames THEN <<>>
                ELSE ScriptEntry(m, "Class method", "method")
    IN  (LET Each(hits) == Concat([hit \in 1..Len(hits) |-> F(hits[hit])])
         IN  Each(execAll(functionRegex, 2, c, 1)))
        \o (LET Each(hits) == Concat([hit \in 1..Len(hits) |-> A(hits[hit])])
            IN  Each(execAll(arrowRegex, 2, c, 1)))
        \o (LET Each(hits) == Concat([hit \in 1..Len(hits) |-> M(hits[hit])])
            IN  Each(execAll(methodRegex, 2, c, 1)))
        \o (LET Each(hits) == Concat([hit \in 1..Len(hits) |-> K(hits[hit])])
            IN  Each(execAll(classMethodRegex, 2, c, 1)))

(***************************************************************************)
(* extractAllApis.execute: the package manifest                            *)
(***************************************************************************)
JString(s) == [type |-> "string", s |-> s]
JObject(entries) == [type |-> "object", entries |-> entries]     \* <<key, value>> pairs
JNull == [type |-> "null"]
\* Object.entries of an array lists its indices as keys
JArray(items) ==
    [type |-> "array", entries |-> [k \in 1..Len(items) |-> <<ToString(k - 1), items[k]>>]]
JUndefined == [type |-> "undefined"]

\* End-to-end example B of the documentation
ExampleB ==
    "{\"exports\":{\".\":\"./index.js\"},\"main\":\"./index.js\",\"types\":\"./index.d.ts\"}"
\* a manifest that lists its own file name
ManifestListed ==
    "{\"files\":[\"package.json\"],\"exports\":{\"./sub\":{\"import\":\"./s.mjs\",\"require\":\"./s.cjs\"},\"./x\":\"./x.js\"},\"module\":\"./m.js\",\"typings\":\"./t.d.ts\"}"
\* a manifest with a null export target
ManifestNullTarget ==
    "{\"files\":[\"package.json\"],\"exports\":{\"./a\":\"./a.js\",\"./old\":null,\"./b\":\"./b.js\"},\"main\":\"./a.js\"}"
\* a manifest cut short
ManifestCut == "{\"files\":[\"package.json\"],\"main\":"

\* JSON.parse on the manifests above; any other text is not JSON
Parseable == {ExampleB, ManifestListed, ManifestNullTarget}
JSONparse(text) ==
    CASE text = ExampleB ->
            JObject(<< <<"exports", JObject(<< <<".", JString("./index.js")>> >>)>>,
                       <<"main", JString("./index.js")>>,
                       <<"types", JString("./index.d.ts")>> >>)
      [] text = ManifestListed ->
            JObject(<< <<"files", JArray(<<JString("package.json")>>)>>,
                       <<"exports",
                         JObject(<< <<"./sub", JObject(<< <<"import", JString("./s.mjs")>>,
                                                         <<"require", JString("./s.cjs")>> >>)>>,
                                    <<"./x", JString("./x.js")>> >>)>>,
                       <<"module", JString("./m.js")>>,
                       <<"typings", JString("./t.d.ts")>> >>)
      [] text = ManifestNullTarget ->
            JObject(<< <<"files", JArray(<<JString("package.json")>>)>>,
                       <<"exports", JObject(<< <<"./a", JString("./a.js")>>,
                                               <<"./old", JNull>>,
                                               <<"./b", JString("./b.js")>> >>)>>,
                       <<"main", JString("./a.js")>> >>)

\* obj.key
Get(obj, key) ==
    IF \E k \in 1..Len(obj.entries) : obj.entries[k][1] = key
    THEN obj.entries[CHOOSE k \in 1..Len(obj.entries) : obj.entries[k][1] = key][2]
    ELSE JUndefined
Truthy(v) == v.type \in {"object", "array"} \/ (v.type = "string" /\ v.s # "")
\* a || b
OrValue(a, b) == IF Truthy(a) THEN a ELSE b

\* lines 517-535: addExport(key, value) for each of Object.entries, in order,
\* on the entries pushed so far; Object.entries(null) throws
RECURSIVE addExport(_, _)
addExport(entries, acc) ==
    IF Len(entries) = 0 \/ acc.threw THEN acc
    ELSE LET key == Head(entries)[1]
             value == Head(entries)[2]
         IN  addExport(Tail(entries),
                 IF value.type = "string"
                 THEN [acc EXCEPT !.apis = Append(@, Api(IF key = "." THEN "default export"
                                                         ELSE key,
                                                         "Exported from " \o value.s, "export"))]
                 ELSE IF value.type \in {"object", "array"} THEN addExport(value.entries, acc)
                 ELSE IF value.type = "null" THEN [acc EXCEPT !.threw = TRUE]
                 ELSE acc)

\* lines 512-557: the entries of a manifest; a failed parse is caught and logged
ManifestPass(c) ==
    IF c \notin Parseable THEN <<>>
    ELSE
    LET pkg == JSONparse(c)
        exports == Get(pkg, "exports")
        exported == IF Truthy(exports) /\ exports.type \in {"object", "array"}
                    THEN addExport(exports.entries, [apis |-> <<>>, threw |-> FALSE])
                    ELSE [apis |-> <<>>, threw |-> FALSE]
        main == Get(pkg, "main")
        types == OrValue(Get(pkg, "types"), Get(pkg, "typings"))
    IN  IF exported.threw THEN exported.apis
        ELSE exported.apis
             \o (IF Truthy(main) THEN <<Api("main", "Main entry: " \o main.s, "export")>>
                 ELSE <<>>)
             \o (IF Truthy(types)
                 THEN <<Api("types", "TypeScript definitions: " \o types.s, "export")>>
                 ELSE <<>>)


(***************************************************************************)
(* extractAllApis.execute as a state machine                               *)
(***************************************************************************)
MaxCalls == 3

\* End-to-end example A of the documentation: the content of its second section
ExampleASection == "* 'foo(x)' - does foo"

\* (content, contentType) pairs handed to the tool.  The branches for py,
\* java, rust, go, rb, cpp, cs, php, swift and kt are not modelled, so no
\* input selects them.
ExtractorInputs ==
    { <<ExampleASection, "md">>,
      <<"1. 'bar' : sets the bar", "rst">>,
      <<"- 'a.b' - gets b. Fast", "md">>,
      <<"'''js\nfoo.bar(1)\nfoo.bar(1)\n'''", "md">>,
      <<"## 'get()'\n| 'a.b' | x |\n- **run()** - runs", "md">>,
      <<"plain text", "md">>,
      <<"export declare function go(n: number): void;", "d.ts">>,
      <<"function f(a) { if (a) { g(a) } }", "js">>,
      <<ExampleB, "json">>,
      <<ManifestListed, "json">>,
      <<ManifestNullTarget, "json">>,
      <<ManifestCut, "json">>,
      <<"plain text", "txt">> }

\* line 565: the key an entry is deduplicated by
DedupKeyWithDescription(api) == <<api.signature, api.description>>
DedupKey(api) == api.signature

\* line 562: const seen = new Set()
StaleSeen == seen
FreshSeen == {}

Recorded(c, t) == \E r \in firstResult : r.content = c /\ r.contentType = t

\* lines 21-27 and 560-562: the entry is logged and the call begins with
\* fresh locals; the history records the call that has just returned
Begin(in, found) ==
    /\ epc \in {"idle", "done"}
    /\ calls < MaxCalls
    /\ sinkOk
    /\ raised' = FALSE
    /\ content' = in[1]
    /\ contentType' = in[2]
    /\ apis' = found
    /\ uniqueApis' = <<>>
    /\ seen' = FreshSeen
    /\ apiNo' = 1
    /\ epc' = "dedup"
    /\ previous' = <<content, contentType>>
    /\ firstResult' =
         IF epc = "done" /\ ~raised /\ ~Recorded(content, contentType)
         THEN firstResult \cup {[content |-> content, contentType |-> contentType,
                                 result |-> extracted]}
         ELSE firstResult
    /\ UNCHANGED <<extracted, calls, besidesExtractor>>

\* lines 29-558: the entries the branch chosen by contentType pushes
Passes(c, t) ==
    IF t \in {"md", "rst"}
    THEN CodeBlockPass(c) \o InlinePass(c) \o ListPass(c) \o TablePass(c) \o HeaderPass(c)
    ELSE IF t \in {"d.ts", "ts"} THEN TypedPass(c)
    ELSE IF t = "js" THEN ScriptPass(c)
    ELSE IF t = "json" /\ includes(c, "package.json") THEN ManifestPass(c)
    ELSE <<>>

\* Passes, tabulated over the inputs
PassTable == {<<in, Passes(in[1], in[2])>> : in \in ExtractorInputs}
Found(in) == (CHOOSE row \in PassTable : row[1] = in)[2]

\* lines 29-127
ExtractDocs ==
    \E in \in ExtractorInputs :
        /\ in[2] \in {"md", "rst"}
        /\ Begin(in, Found(in))

\* lines 128-172
ExtractTyped ==
    \E in \in ExtractorInputs :
        /\ in[2] \in {"d.ts", "ts"}
        /\ Begin(in, Found(in))

\* lines 173-218
ExtractScript ==
    \E in \in ExtractorInputs :
        /\ in[2] = "js"
        /\ Begin(in, Found(in))

\* lines 510-558
ExtractManifest ==
    \E in \in ExtractorInputs :
        /\ in[2] = "json" /\ includes(in[1], "package.json")
        /\ Begin(in, Found(in))

\* no branch of lines 29-558 applies
ExtractNothing ==
    \E in \in ExtractorInputs :
        /\ in[2] \notin {"md", "rst", "d.ts", "ts", "js"}
        /\ ~(in[2] = "json" /\ includes(in[1], "package.json"))
        /\ Begin(in, Found(in))

\* lines 564-570: one iteration of the loop
DedupStep ==
    /\ epc = "dedup"
    /\ apiNo <= Len(apis)
    /\ LET api == apis[apiNo]
           key == DedupKey(api)
       IN  IF key \notin seen
           THEN /\ seen' = seen \cup {key}
                /\ uniqueApis' = Append(uniqueApis, api)
           ELSE UNCHANGED <<seen, uniqueApis>>
    /\ apiNo' = apiNo + 1
    /\ UNCHANGED <<epc, content, contentType, apis, extracted, firstResult, previous, calls,
                   raised, besidesExtractor>>

\* lines 572-581: the result is logged and returned
ExtractReturn ==
    /\ epc = "dedup"
    /\ apiNo > Len(apis)
    /\ sinkOk
    /\ extracted' = [apis |-> uniqueApis, success |-> TRUE]
    /\ epc' = "done"
    /\ calls' = calls + 1
    /\ UNCHANGED <<content, contentType, apis, uniqueApis, seen, apiNo, firstResult, previous,
                   raised, besidesExtractor>>

InitExtractor == AtRest

NextExtractor ==
    \/ ExtractDocs
    \/ ExtractTyped
    \/ ExtractScript
    \/ ExtractManifest
    \/ ExtractNothing
    \/ DedupStep
    \/ ExtractReturn

\* the extractor while the log file can be appended to
SpecExtractor == InitExtractor /\ [][NextExtractor]_vars

(***************************************************************************)
(* extractAllApis.execute with a log file that cannot always be appended to *)
(***************************************************************************)
\* the environment: appends to the log file begin to fail, or work again
SinkFails ==
    /\ sinkOk /\ sinkOk' = FALSE
    /\ UNCHANGED besidesLogger

SinkRecovers ==
    /\ ~sinkOk /\ sinkOk' = TRUE
    /\ UNCHANGED besidesLogger

\* line 24: logToolExecution stands before the try; the append of logToFile
\* throws and the call raises
ExtractRaises ==
    /\ epc \in {"idle", "done"}
    /\ calls < MaxCalls
    /\ ~sinkOk
    /\ \E in \in ExtractorInputs : content' = in[1] /\ contentType' = in[2]
    /\ previous' = <<content, contentType>>
    /\ firstResult' =
         IF epc = "done" /\ ~raised /\ ~Recorded(content, contentType)
         THEN firstResult \cup {[content |-> content, contentType |-> contentType,
                                 result |-> extracted]}
         ELSE firstResult
    /\ raised' = TRUE
    /\ epc' = "done"
    /\ calls' = calls + 1
    /\ UNCHANGED <<apis, uniqueApis, seen, apiNo, extracted, besidesExtractor>>

\* lines 577, 582-588: the append of logToolExecution throws inside the try;
\* the outer catch calls logError, whose append throws as well, or succeeds
\* when the log file has become writable in between
ReturnLogFails ==
    /\ epc = "dedup"
    /\ apiNo > Len(apis)
    /\ ~sinkOk
    /\ \E again \in BOOLEAN :
          /\ sinkOk' = again
          /\ raised' = ~again
          /\ extracted' = IF again THEN [apis |-> <<>>, success |-> FALSE] ELSE extracted
    /\ epc' = "done"
    /\ calls' = calls + 1
    /\ UNCHANGED <<content, contentType, apis, uniqueApis, seen, apiNo, firstResult, previous,
                   rvars, pvars, cvars, avars, hvars>>

InitLogging == AtRest

NextLogging ==
    \/ ExtractDocs
    \/ ExtractTyped
    \/ ExtractScript
    \/ ExtractManifest
    \/ ExtractNothing
    \/ DedupStep
    \/ ExtractReturn
    \/ SinkFails
    \/ SinkRecovers
    \/ ExtractRaises
    \/ ReturnLogFails

SpecLogging == InitLogging /\ [][NextLogging]_vars

(***************************************************************************)
(* Properties of the extractor                                             *)
(***************************************************************************)
Signatures(as) == {as[k].signature : k \in 1..Len(as)}
NoRepeatedSignature(as) ==
    \A i, j \in 1..Len(as) : i # j => as[i].signature # as[j].signature
RECURSIVE FirstOccurrences(_)
FirstOccurrences(as) ==
    IF Len(as) = 0 THEN <<>>
    ELSE LET front == FirstOccurrences(SubSeq(as, 1, Len(as) - 1))
             last == as[Len(as)]
         IN  IF last.signature \in Signatures(front) THEN front ELSE Append(front, last)

\* C5: the list one call returns has no two entries with the same signature;
\* it is the list of first occurrences of each signature among the entries
\* the passes produced, in the order the passes produced them.
DedupKeepsFirst ==
    epc = "done" =>
        /\ NoRepeatedSignature(extracted.apis)
        /\ extracted.apis = FirstOccurrences(apis)

\* C5 witness: a call returned after a later entry with an already seen
\* signature was dropped from between entries that were kept
DedupDroppedRepeat ==
    /\ epc = "done"
    /\ Len(extracted.apis) >= 2
    /\ \E k \in 1..Len(apis) - 1 :
          /\ apis[k].signature \in Signatures(SubSeq(apis, 1, k - 1))
          /\ apis[k + 1].signature \notin Signatures(SubSeq(apis, 1, k))

CodeLabelledItems(c) ==
    (LET Each(hits) == Concat([hit \in 1..Len(hits) |-> ListEntry(hits[hit])])
     IN  Each(execAll(listPatterns[1], 2, c, 1)))
    \o (LET Each(hits) == Concat([hit \in 1..Len(hits) |-> ListEntry(hits[hit])])
        IN  Each(execAll(listPatterns[2], 2, c, 1)))

\* C9: for every code-labelled list item of markdown content the returned
\* list has an entry with the item's signature whose description is the
\* item's trailing prose.
ListItemDescriptionKept ==
    (epc = "done" /\ contentType \in {"md", "rst"}) =>
        LET items == CodeLabelledItems(content)
        IN  \A k \in 1..Len(items) :
                \E n \in 1..Len(extracted.apis) :
                    /\ extracted.apis[n].signature = items[k].signature
                    /\ extracted.apis[n].description = items[k].description

RECURSIVE FlatKeys(_)
FlatKeys(entries) ==
    IF Len(entries) = 0 THEN {}
    ELSE LET value == Head(entries)[2]
         IN  (IF value.type = "string" THEN {Head(entries)[1]}
              ELSE IF value.type \in {"object", "array"} THEN FlatKeys(value.entries)
              ELSE {})
             \cup FlatKeys(Tail(entries))
ExportNames(as) == {as[k].signature : k \in {n \in 1..Len(as) : as[n].category = "export"}}

\* C10: for a parseable manifest given with the manifest kind the returned
\* list has an export entry for every key of the flattened exports map, the
\* key "." included, an entry main when main is declared and an entry types
\* when types or typings is declared.
ManifestEntries ==
    (epc = "done" /\ contentType = "json" /\ content \in Parseable) =>
        LET pkg == JSONparse(content)
            exports == Get(pkg, "exports")
            names == ExportNames(extracted.apis)
        IN  /\ exports.type = "object" => FlatKeys(exports.entries) \subseteq names
            /\ Truthy(Get(pkg, "main")) => "main" \in names
            /\ (Truthy(Get(pkg, "types")) \/ Truthy(Get(pkg, "typings"))) => "types" \in names


(***************************************************************************)
(* scrapeDocumentation: pattern tables and helpers of the source           *)
(***************************************************************************)
DefaultMaxPages == 10
MinNameLength == 2
MaxNameLength == 100
SiteContextBefore == 500
SiteContextAfter == 2000
GenericContextAfter == 1500
DescriptionMax == 200

Quote == "\""
NotQuote == NotSet({Quote})
NotGt == NotSet({">"})
NotLt == NotSet({"<"})
\* ...>([^<]+)<  with the captured text in group n
TagEnd(n) == Cat(<<Star(NotGt), Lit(">"), Grp(n, Plus(NotLt)), Lit("<")>>)

\* SITE_PATTERNS: of its twelve hosts the model keeps lodash.com, with the
\* three expressions lines 193, 210 and 218 build from its selectors:
\*   <(h3)[^>]*>([^<]+)<
\*   <(?:pre[^"]*")[^>]*>([^<]+)<
\*   <(?:[^>]*class="[^"]*doc-desc[^"]*")[^>]*>([^<]+)<
SITE_PATTERNS ==
    <<[domain |-> "lodash.com",
       apiPath |-> "/docs",
       methodPattern |-> Cat(<<Lit("<"), Grp(1, Text("h3")), TagEnd(2)>>),
       sigPattern |-> Cat(<<Lit("<"), Text("pre"), Star(NotQuote), Lit(Quote), TagEnd(1)>>),
       descPattern |-> Cat(<<Lit("<"), Star(NotGt), Text("class=\""), Star(NotQuote),
                             Text("doc-desc"), Star(NotQuote), Lit(Quote), TagEnd(1)>>),
       structure |-> "lodash-style"]>>

\* GENERIC_PATTERNS.methodSelectors after selector.replace('.', ''), as the
\* expression each contributes to the pattern of line 236; the last two are
\* read by RegExp as character classes
methodSelectors ==
    <<Text("h1"), Text("h2"), Text("h3"), Text("method-name"), Text("function-name"),
      Text("api-name"), Set(Chars("clas*=\"method")), Set(Chars("clas*=\"function"))>>

\* line 236: <[^>]*(?:class|id)="[^"]*SELECTOR[^"]*"[^>]*>([^<]+)<
GenericMethodPattern(selector) ==
    Cat(<<Lit("<"), Star(NotGt), Alt(<<Text("class"), Text("id")>>), Text("=\""),
          Star(NotQuote), selector, Star(NotQuote), Lit(Quote), TagEnd(1)>>)

\* line 252: /<(?:pre|code)[^>]*>([^<]+)</i
codePattern == Cat(<<Lit("<"), Alt(<<Text("pre"), Text("code")>>), TagEnd(1)>>)
\* line 257: /<p[^>]*>([^<]+)</i
paraPattern == Cat(<<Lit("<"), Text("p"), TagEnd(1)>>)
\* line 278: /<a[^>]*href="([^"]+)"[^>]*>/gi
linkPattern ==
    Cat(<<Text("<a"), Star(NotGt), Text("href=\""), Grp(1, Plus(NotQuote)), Lit(Quote),
          Star(NotGt), Lit(">")>>)
\* line 302: /api|reference|docs|methods|functions|classes/i
ApiWords == {"api", "reference", "docs", "methods", "functions", "classes"}

\* const patterns = null
NoPattern == [domain |-> ""]
\* if (patterns)
Known(profile) == profile.domain # ""

\* lines 173-177: the first entry of SITE_PATTERNS whose domain the url includes
RECURSIVE FindPattern(_, _)
FindPattern(table, u) ==
    IF Len(table) = 0 THEN NoPattern
    ELSE IF includes(u, Head(table).domain) THEN Head(table)
    ELSE FindPattern(Tail(table), u)

Max(a, b) == IF a >= b THEN a ELSE b
Min(a, b) == IF a <= b THEN a ELSE b
\* String.prototype.substring(from, to): zero-based, to exclusive, both
\* clamped to the string
substring(s, from, to) == SubSeq(s, Max(0, from) + 1, Min(Len(s), to))

\* lines 200-201, 243-244: the label is taken for an API name
ValidName(methodName) ==
    /\ ~(Len(methodName) < MinNameLength \/ Len(methodName) > MaxNameLength)
    /\ Head(methodName) \in IdStart \cup {"$"}

PageApi(name, signature, description, pageUrl, category) ==
    [name |-> name, signature |-> signature,
     description |-> IF description = "" THEN "API method" ELSE description,
     url |-> pageUrl, category |-> category]

\* context.match(re): group 1 of the first match, trimmed; dflt without a match
FirstCapture(re, context, dflt) ==
    LET At(m) == IF m.ok THEN trim(Group(m, 1)) ELSE dflt
    IN  At(exec(re, 1, context, 1))

\* lines 196-231: one match of the site's method pattern
SiteEntry(html, pageUrl, profile, methodMatch) ==
    LET Entry(methodName, context) ==
            IF ~ValidName(methodName) THEN <<>>
            ELSE <<PageApi(methodName,
                           FirstCapture(profile.sigPattern, context, methodName),
                           substring(FirstCapture(profile.descPattern, context, ""),
                                     0, DescriptionMax),
                           pageUrl, profile.structure)>>
    IN  Entry(trim(Group(methodMatch, 2)),
              substring(html, Max(0, methodMatch.index - 1 - SiteContextBefore),
                        Min(Len(html), methodMatch.index - 1 + SiteContextAfter)))

\* lines 239-268: one match of a generic method pattern
GenericEntry(html, pageUrl, match) ==
    LET Entry(methodName, context) ==
            IF ~ValidName(methodName) THEN <<>>
            ELSE <<PageApi(methodName,
                           FirstCapture(codePattern, context, methodName),
                           substring(FirstCapture(paraPattern, context, ""),
                                     0, DescriptionMax),
                           pageUrl, "generic")>>
    IN  Entry(trim(Group(match, 1)),
              substring(html, Max(0, match.index - 1),
                        Min(Len(html), match.index - 1 + GenericContextAfter)))

\* lines 188-273
extractAPIsFromHTML(html, pageUrl, profile) ==
    IF Known(profile)
    THEN (LET Each(hits) ==
                  Concat([hit \in 1..Len(hits) |-> SiteEntry(html, pageUrl, profile, hits[hit])])
          IN  Each(execAll(profile.methodPattern, 2, html, 1)))
    ELSE Concat([sel \in 1..Len(methodSelectors) |->
                   (LET Each(hits) ==
                            Concat([hit \in 1..Len(hits) |->
                                      GenericEntry(html, pageUrl, hits[hit])])
                    IN  Each(execAll(GenericMethodPattern(methodSelectors[sel]), 1, html, 1)))])

\* new URL(u) for a url of the form scheme://host/path: the position of the
\* slash that starts the path (0: none)
PathStart(u) ==
    LET from == (CHOOSE i \in 1..Len(u) : SubSeq(u, i, i + 1) = "//") + 2
    IN  IF \E i \in from..Len(u) : Ch(u, i) = "/"
        THEN CHOOSE i \in from..Len(u) : Ch(u, i) = "/" /\ \A j \in from..(i - 1) : Ch(u, j) # "/"
        ELSE 0
\* `${urlObj.protocol}//${urlObj.host}`
Origin(u) == IF PathStart(u) = 0 THEN u ELSE SubSeq(u, 1, PathStart(u) - 1)
\* urlObj.pathname
Pathname(u) == IF PathStart(u) = 0 THEN "/" ELSE SubSeq(u, PathStart(u), Len(u))
\* s.substring(0, s.lastIndexOf('/'))
UpToLastSlash(s) ==
    SubSeq(s, 1, (CHOOSE i \in 1..Len(s) :
                      Ch(s, i) = "/" /\ \A j \in (i + 1)..Len(s) : Ch(s, j) # "/") - 1)

\* lines 284-293
absoluteUrl(href, baseUrl) ==
    IF startsWith(href, "/") THEN Origin(baseUrl) \o href
    ELSE IF ~startsWith(href, "http")
         THEN Origin(baseUrl) \o UpToLastSlash(Pathname(baseUrl)) \o "/" \o href
         ELSE href

\* lines 296-305
ApiRelated(href, profile) ==
    IF Known(profile)
    THEN includes(href, profile.apiPath) \/ includes(href, "api") \/ includes(href, "reference")
    ELSE \E w \in ApiWords : includes(toUpperCase(href), toUpperCase(w))

\* lines 276-309
extractLinks(html, baseUrl, profile) ==
    LET Each(hits) ==
            Concat([hit \in 1..Len(hits) |->
                      IF ApiRelated(Group(hits[hit], 1), profile)
                      THEN <<absoluteUrl(Group(hits[hit], 1), baseUrl)>> ELSE <<>>])
    IN  Each(execAll(linkPattern, 1, html, 1))

(***************************************************************************)
(* scrapeDocumentation: the remote sites the model crawls                  *)
(***************************************************************************)
MaxPagesBound == 3

ApiPage == "http://x.io/api"
GuidePage == "http://x.io/api/b"
DocsPage == "http://x.io/docs"
LodashPage == "http://lodash.com/docs"

\* the pages that exist, by url; a link graph with a cycle between the api
\* page and the guide page, links given in the three forms of lines 284-293,
\* a link repeated on a page and links to pages that do not exist
Web ==
    <<[url |-> ApiPage,
       html |-> "<h2 class=\"api-name\">ab:c</h2><pre>d</pre>"
                \o "<a href=\"/api/b\"><a href=\"docs\"><a href=\"/api/b\"><a href=\"/faq\">"],
      [url |-> GuidePage,
       html |-> "<h2 class=\"api-name\">ab:c</h2><pre>d</pre><b id=\"h1\">x</b>"
                \o "<a href=\"http://x.io/api\"><a href=\"/api/gone\">"],
      [url |-> DocsPage,
       html |-> "<h2 class=\"api-name\">ab</h2><pre>c:d</pre>"],
      [url |-> LodashPage,
       html |-> "<h3>_.map</h3><pre class=\"x\">_.map(c, f)</pre><p class=\"doc-desc\">maps</p>"
                \o "<a href=\"http://x.io/api\"><a href=\"/docs/gone\">"]>>

Exists(u) == \E k \in 1..Len(Web) : Web[k].url = u
PageAt(u) == Web[CHOOSE k \in 1..Len(Web) : Web[k].url = u].html

\* the urls a caller starts from, one of them no url at all
StartUrls == {ApiPage, LodashPage, "x"}
\* ctx.context.maxPages, which the caller may leave out
MaxPagesInputs ==
    [given : {TRUE}, value : 0..MaxPagesBound] \cup {[given |-> FALSE, value |-> 0]}

\* how a page request can end: the body read ("ok"), a non-OK response
\* ("notOk"), fetch() rejected ("rejected"), response.text() rejected ("cut")
FetchOutcomes(u) == IF Exists(u) THEN {"ok", "notOk", "rejected", "cut"} ELSE {"notOk", "rejected"}

\* what the two helpers return for each page that exists, under the generic
\* patterns and under each site's patterns (computed once)
Profiles == <<NoPattern>> \o SITE_PATTERNS
ScrapeTable ==
    [k \in 1..Len(Web) |->
        [p \in 1..Len(Profiles) |->
            [apis |-> extractAPIsFromHTML(Web[k].html, Web[k].url, Profiles[p]),
             links |-> extractLinks(Web[k].html, Web[k].url, Profiles[p])]]]
Scrape(u, profile) ==
    ScrapeTable[CHOOSE k \in 1..Len(Web) : Web[k].url = u]
               [CHOOSE p \in 1..Len(Profiles) : Profiles[p].domain = profile.domain]

(***************************************************************************)
(* scrapeDocumentation.execute                                             *)
(***************************************************************************)
\* line 312: the condition of the crawl loop
ContinuesWhileQueued(queue, scrapedSoFar, limit) == Len(queue) > 0
Continues(queue, scrapedSoFar, limit) == Len(queue) > 0 /\ scrapedSoFar < limit

\* line 313: what urlsToVisit.shift() leaves in the queue
RestWithHead(queue) == queue
Rest(queue) == Tail(queue)

EnqueueAll(queue, found, visited) == queue \o found
\* lines 345-349: the links not yet visited and not yet queued are queued
RECURSIVE Enqueue(_, _, _)
Enqueue(queue, found, visited) ==
    IF Len(found) = 0 THEN queue
    ELSE Enqueue(IF Head(found) \notin visited /\ \A k \in 1..Len(queue) : queue[k] # Head(found)
                 THEN Append(queue, Head(found)) ELSE queue,
                 Tail(found), visited)

\* line 369: the key of the deduplication
Key(api) == api.name \o ":" \o api.signature

\* lines 365-374: the deduplication loop
RECURSIVE Deduplicate(_, _, _)
Deduplicate(found, unique, keys) ==
    IF Len(found) = 0 THEN unique
    ELSE IF Key(Head(found)) \notin keys
         THEN Deduplicate(Tail(found), Append(unique, Head(found)), keys \cup {Key(Head(found))})
         ELSE Deduplicate(Tail(found), unique, keys)

\* lines 162-177: destructure the input, set up the crawl
ScrapeBegin ==
    /\ cpc = "idle"
    /\ \E u \in StartUrls, in \in MaxPagesInputs :
          /\ url' = u
          /\ maxPages' = IF in.given THEN in.value ELSE DefaultMaxPages
          /\ patterns' = FindPattern(SITE_PATTERNS, u)
          /\ urlsToVisit' = <<u>>
    /\ scraped' = <<>> /\ visitedUrls' = {} /\ pagesScraped' = 0
    /\ cpc' = "loop"
    /\ UNCHANGED <<currentUrl, scrapeResult, requests, besidesCrawler>>

\* lines 312-319: the loop takes the next url of the queue
NextUrl ==
    /\ cpc = "loop"
    /\ Continues(urlsToVisit, pagesScraped, maxPages)
    /\ currentUrl' = Head(urlsToVisit)
    /\ urlsToVisit' = Rest(urlsToVisit)
    /\ IF Head(urlsToVisit) \in visitedUrls
       THEN UNCHANGED <<visitedUrls, cpc>>
       ELSE /\ visitedUrls' = visitedUrls \cup {Head(urlsToVisit)}
            /\ cpc' = "fetch"
    /\ UNCHANGED <<url, maxPages, patterns, scraped, pagesScraped, scrapeResult, requests,
                   besidesCrawler>>

\* line 336: pagesScraped++ stands after the test of response.ok and after
\* response.text()
CountedPagesAlways(n, outcome) == n + 1
CountedPages(n, outcome) == IF outcome = "ok" THEN n + 1 ELSE n

\* lines 323-333, 358-361: the page is not read
PageFailed ==
    /\ cpc = "fetch"
    /\ \E outcome \in FetchOutcomes(currentUrl) \ {"ok"} :
          /\ requests' = Append(requests, [url |-> currentUrl, outcome |-> outcome])
          /\ pagesScraped' = CountedPages(pagesScraped, outcome)
    /\ cpc' = "loop"
    /\ UNCHANGED <<url, maxPages, patterns, scraped, visitedUrls, urlsToVisit,
                   currentUrl, scrapeResult, besidesCrawler>>

\* lines 323-356: the page is read, its records and links are taken
PageScraped ==
    /\ cpc = "fetch"
    /\ "ok" \in FetchOutcomes(currentUrl)
    /\ requests' = Append(requests, [url |-> currentUrl, outcome |-> "ok"])
    /\ pagesScraped' = CountedPages(pagesScraped, "ok")
    /\ scraped' = scraped \o Scrape(currentUrl, patterns).apis
    /\ urlsToVisit' = IF pagesScraped' < maxPages
                      THEN Enqueue(urlsToVisit, Scrape(currentUrl, patterns).links, visitedUrls)
                      ELSE urlsToVisit
    /\ cpc' = "loop"
    /\ UNCHANGED <<url, maxPages, patterns, visitedUrls, currentUrl, scrapeResult,
                   besidesCrawler>>

\* lines 364-388: the loop is left, the records are deduplicated and returned
ScrapeReturn ==
    /\ cpc = "loop"
    /\ ~Continues(urlsToVisit, pagesScraped, maxPages)
    /\ scrapeResult' =
          (LET Result(unique) ==
                   [apis |-> unique, pagesScraped |-> pagesScraped,
                    success |-> Len(unique) > 0,
                    error |-> IF Len(unique) = 0 THEN "No APIs found" ELSE Undefined,
                    returned |-> TRUE]
           IN  Result(Deduplicate(scraped, <<>>, {})))
    /\ cpc' = "done"
    /\ UNCHANGED <<url, maxPages, patterns, scraped, visitedUrls, urlsToVisit, pagesScraped,
                   currentUrl, requests, besidesCrawler>>

InitCrawler == AtRest

NextCrawler ==
    \/ ScrapeBegin
    \/ NextUrl
    \/ PageFailed
    \/ PageScraped
    \/ ScrapeReturn

SpecCrawler == InitCrawler /\ [][NextCrawler]_vars

\* the crawl is one sequential async function: as long as every awaited
\* fetch settles, its next step is eventually taken
FairCrawler == SpecCrawler /\ WF_vars(NextCrawler)

(***************************************************************************)
(* Claims about the crawler, checked under SpecCrawler and FairCrawler     *)
(***************************************************************************)
ReadPages == {k \in 1..Len(requests) : requests[k].outcome = "ok"}
Pair(api) == <<api.name, api.signature>>
FirstWithPair(found, k) ==
    found[CHOOSE i \in 1..k : Pair(found[i]) = Pair(found[k])
                              /\ \A j \in 1..(i - 1) : Pair(found[j]) # Pair(found[k])]

CrawlTerminates == (cpc # "idle") ~> (cpc = "done" /\ scrapeResult.returned)

\* C13 witness: a crawl over the two pages that link to each other, with a
\* failed page request among its requests, has returned.
CyclicCrawlReturned ==
    /\ cpc = "done" /\ scrapeResult.returned
    /\ {ApiPage, GuidePage} \subseteq visitedUrls
    /\ \E k \in 1..Len(requests) : requests[k].outcome # "ok"

\* C14: the returned records hold no (name, signature) pair twice, and
\* every pair extracted from a scraped page is returned, as the record that
\* was extracted first with it.
DedupByPair ==
    scrapeResult.returned =>
        /\ \A i, j \in 1..Len(scrapeResult.apis) :
              Pair(scrapeResult.apis[i]) = Pair(scrapeResult.apis[j]) => i = j
        /\ \A k \in 1..Len(scraped) :
              \E i \in 1..Len(scrapeResult.apis) :
                  scrapeResult.apis[i] = FirstWithPair(scraped, k)


(***************************************************************************)
(* analyzeRepository: tables and helpers of the source                     *)
(***************************************************************************)
LowerCh(c) ==
    IF \E k \in 1..Len(Upper) : Ch(Upper, k) = c
    THEN Ch(Lower, CHOOSE k \in 1..Len(Upper) : Ch(Upper, k) = c)
    ELSE c

RECURSIVE toLowerCase(_)
toLowerCase(s) == IF s = "" THEN "" ELSE LowerCh(Head(s)) \o toLowerCase(Tail(s))

HostChars == Set(WordChars \cup {".", "-"})                 \* [\w.-]
Scheme == Cat(<<Text("http"), Opt(Lit("s")), Text("://")>>)  \* https?:\/\/

\* lines 597-601: DOC_PATTERNS.websites
DOC_PATTERNS ==
    <<Cat(<<Scheme, Plus(HostChars), Lit("."),
            Alt(<<Text("io"), Text("dev"), Text("com"), Text("org"), Text("net")>>), Lit("/"),
            Alt(<<Cat(<<Text("doc"), Opt(Lit("s"))>>), Text("api"), Text("reference")>>)>>),
      Cat(<<Text("documentation"), Star(Dot),
            Alt(<<Text("url"), Text("site"), Text("link")>>)>>),
      Cat(<<Alt(<<Cat(<<Text("doc"), Opt(Lit("s"))>>), Text("api")>>), Star(Dot), Scheme>>)>>

\* line 765: /https?:\/\/[^\s)>\]]+/
urlInMatch == Cat(<<Scheme, Plus(NotSet(WhiteSpace \cup {")", ">", "]"}))>>)

\* lines 620-634: PACKAGE_MANAGERS, in the order of Object.entries
PACKAGE_MANAGERS ==
    <<[file |-> "package.json", name |-> "npm", registry |-> "https://registry.npmjs.org/"],
      [file |-> "Cargo.toml", name |-> "cargo", registry |-> "https://crates.io/"],
      [file |-> "pom.xml", name |-> "maven", registry |-> "https://search.maven.org/"],
      [file |-> "build.gradle", name |-> "gradle", registry |-> "https://search.maven.org/"],
      [file |-> "requirements.txt", name |-> "pip", registry |-> "https://pypi.org/"],
      [file |-> "setup.py", name |-> "pip", registry |-> "https://pypi.org/"],
      [file |-> "pyproject.toml", name |-> "pip", registry |-> "https://pypi.org/"],
      [file |-> "go.mod", name |-> "go", registry |-> "https://pkg.go.dev/"],
      [file |-> "Gemfile", name |-> "bundler", registry |-> "https://rubygems.org/"],
      [file |-> "*.gemspec", name |-> "gem", registry |-> "https://rubygems.org/"],
      [file |-> "composer.json", name |-> "composer", registry |-> "https://packagist.org/"],
      [file |-> "Package.swift", name |-> "spm", registry |-> "https://swiftpackageindex.com/"],
      [file |-> "*.csproj", name |-> "nuget", registry |-> "https://www.nuget.org/"]>>

\* lines 637-649: DOC_SITES; of its eleven languages the model keeps two
DOC_SITES ==
    <<[language |-> "javascript", sites |-> <<"npmjs.com", "unpkg.com", "jsdelivr.com", "nodejs.org">>],
      [language |-> "rust", sites |-> <<"docs.rs", "crates.io", "rust-lang.org">>]>>

\* DOC_SITES[primaryLanguage] || []
SitesOf(language) ==
    IF \E k \in 1..Len(DOC_SITES) : DOC_SITES[k].language = language
    THEN DOC_SITES[CHOOSE k \in 1..Len(DOC_SITES) : DOC_SITES[k].language = language].sites
    ELSE <<>>

\* a site name read as a regular expression: every dot stands for any character
RECURSIVE SiteExpression(_)
SiteExpression(parts) ==
    IF Len(parts) = 1 THEN <<Text(parts[1])>>
    ELSE <<Text(parts[1]), Dot>> \o SiteExpression(Tail(parts))

\* line 780: new RegExp(`https?://[\\w.-]*${site}[/\\w.-]*`, 'gi')
urlPattern(site) ==
    Cat(<<Scheme, Star(HostChars)>> \o SiteExpression(split(site, "."))
        \o <<Star(Set(WordChars \cup {".", "-", "/"}))>>)

Source(type, u, path, priority) ==
    [type |-> type, url |-> u, path |-> path, priority |-> priority]

\* lines 762-774: the urls the documentation patterns find in the readme
PatternSources(readmeContent) ==
    Concat([k \in 1..Len(DOC_PATTERNS) |->
        (LET InMatch(urlMatch, matched) ==
                 IF urlMatch.ok THEN <<Source("website", Whole(matched, urlMatch), Undefined, 1)>>
                 ELSE <<>>
             Found1(matches) ==
                 IF matches.ok
                 THEN InMatch(exec(urlInMatch, 0, Whole(readmeContent, matches), 1),
                              Whole(readmeContent, matches))
                 ELSE <<>>
         IN  Found1(exec(DOC_PATTERNS[k], 0, readmeContent, 1)))])

\* lines 777-790: the urls of the language's documentation sites in the readme
SiteSources(readmeContent, language) ==
    Concat([k \in 1..Len(SitesOf(language)) |->
        IF includes(readmeContent, SitesOf(language)[k])
        THEN (LET First(matches) ==
                      IF matches.ok THEN <<Source("website", Whole(readmeContent, matches), Undefined, 1)>>
                      ELSE <<>>
              IN  First(exec(urlPattern(SitesOf(language)[k]), 0, readmeContent, 1)))
        ELSE <<>>])

\* lines 755-790
ReadmeSources(readmeContent, language) ==
    <<Source("readme", Undefined, "README.md", 2)>>
    \o PatternSources(readmeContent) \o SiteSources(readmeContent, language)

\* line 814: file.includes('*') ? name.endsWith(file.replace('*', '')) : name === file
Names(contents) == [k \in 1..Len(contents) |-> contents[k].name]
FileMatches(file, name) ==
    IF includes(file, "*") THEN endsWith(name, SubSeq(file, 2, Len(file))) ELSE name = file

NoPackageManager == [defined |-> FALSE]

\* lines 812-831: the first package manager one of whose files is listed
RECURSIVE DetectPackageManager(_, _, _)
DetectPackageManager(table, fileNames, packageName) ==
    IF Len(table) = 0 THEN NoPackageManager
    ELSE IF \E k \in 1..Len(fileNames) : FileMatches(Head(table).file, fileNames[k])
         THEN [defined |-> TRUE, name |-> Head(table).name, registry |-> Head(table).registry,
               packageName |-> packageName]
         ELSE DetectPackageManager(Tail(table), fileNames, packageName)

DocDirNames == {"docs", "documentation", "doc", "api"}
GeneratedDocNames == {"javadoc", "rustdoc", "godoc", "yard", "doxygen", "sphinx"}

\* lines 812-859: the sources the root listing adds
ContentsSources(fileNames, packageName) ==
    LET With(manager) ==
            IF manager.defined
            THEN <<Source("registry", manager.registry \o packageName, Undefined, 2)>> ELSE <<>>
    IN  With(DetectPackageManager(PACKAGE_MANAGERS, fileNames, packageName))
        \o (IF \E k \in 1..Len(fileNames) : toLowerCase(fileNames[k]) \in DocDirNames
            THEN <<Source("source", Undefined, "docs/", 4)>> ELSE <<>>)
        \o (IF \E k \in 1..Len(fileNames) :
                  \E doc \in GeneratedDocNames : includes(toLowerCase(fileNames[k]), doc)
            THEN <<Source("generated", Undefined, "generated-docs/", 3)>> ELSE <<>>)

\* a JSON number; NaN, which arithmetic on anything else yields
JNumber(n) == [type |-> "number", n |-> n]
NaN == [type |-> "NaN"]

\* sum + bytes
Add(sum, bytes) ==
    IF sum.type = "number" /\ bytes.type = "number" THEN JNumber(sum.n + bytes.n)
    ELSE JString((IF sum.type = "number" THEN ToString(sum.n) ELSE sum.s)
                 \o (IF bytes.type = "number" THEN ToString(bytes.n) ELSE bytes.s))

\* line 715: Object.values(languagesData).reduce((sum, bytes) => sum + bytes, 0)
RECURSIVE totalBytes(_, _)
totalBytes(entries, sum) ==
    IF Len(entries) = 0 THEN sum ELSE totalBytes(Tail(entries), Add(sum, Head(entries)[2]))

\* line 719: Math.round((bytes / totalBytes) * 100)
Percentage(bytes, total) ==
    IF bytes.type = "number" /\ total.type = "number" /\ total.n # 0
    THEN JNumber((200 * bytes.n + total.n) \div (2 * total.n))
    ELSE NaN

\* line 720: (a, b) => b.percentage - a.percentage; a NaN difference counts as 0
CompareShare(a, b) ==
    IF a.percentage.type = "number" /\ b.percentage.type = "number"
    THEN b.percentage.n - a.percentage.n ELSE 0

\* line 869: (a, b) => a.priority - b.priority
ComparePriorityReversed(a, b) == b.priority - a.priority
ComparePriority(a, b) == a.priority - b.priority

\* Array.prototype.sort, which is stable: each element is placed behind the
\* elements that the comparison function does not order after it
RECURSIVE InsertLanguage(_, _)
InsertLanguage(sorted, x) ==
    IF Len(sorted) = 0 \/ CompareShare(sorted[Len(sorted)], x) <= 0 THEN Append(sorted, x)
    ELSE Append(InsertLanguage(SubSeq(sorted, 1, Len(sorted) - 1), x), sorted[Len(sorted)])
RECURSIVE SortLanguages(_, _)
SortLanguages(items, sorted) ==
    IF Len(items) = 0 THEN sorted
    ELSE SortLanguages(Tail(items), InsertLanguage(sorted, Head(items)))

RECURSIVE InsertSource(_, _)
InsertSource(sorted, x) ==
    IF Len(sorted) = 0 \/ ComparePriority(sorted[Len(sorted)], x) <= 0 THEN Append(sorted, x)
    ELSE Append(InsertSource(SubSeq(sorted, 1, Len(sorted) - 1), x), sorted[Len(sorted)])
RECURSIVE SortSources(_, _)
SortSources(items, sorted) ==
    IF Len(items) = 0 THEN sorted
    ELSE SortSources(Tail(items), InsertSource(sorted, Head(items)))

\* lines 717-720
LanguageShares(languagesData) ==
    SortLanguages([k \in 1..Len(languagesData.entries) |->
                      [name |-> languagesData.entries[k][1],
                       percentage |-> Percentage(languagesData.entries[k][2],
                                                 totalBytes(languagesData.entries, JNumber(0)))]],
                  <<>>)

\* line 722: languages[0]?.name.toLowerCase() || 'unknown'
PrimaryOf(shares) ==
    IF Len(shares) = 0 \/ shares[1].name = "" THEN "unknown" ELSE toLowerCase(shares[1].name)

\* lines 727-743: the sources the repository metadata adds
MetadataSources(meta, givenUrl) ==
    (IF meta.homepage # "" /\ includes(meta.homepage, "http")
     THEN <<Source("website", meta.homepage, Undefined, 1)>> ELSE <<>>)
    \o (IF meta.has_wiki THEN <<Source("wiki", givenUrl \o "/wiki", Undefined, 3)>> ELSE <<>>)

\* let packages = undefined
NotListed == [defined |-> FALSE]
\* lines 912-917, 991-996: the structure reported when the listing is not read
StandardStructure ==
    [type |-> "standard", mainPath |-> Undefined, packages |-> NotListed,
     hasDocs |-> FALSE, hasTests |-> FALSE, hasExamples |-> FALSE]

DirNames(contents) ==
    {toLowerCase(contents[k].name) : k \in {j \in 1..Len(contents) : contents[j].type = "dir"}}
LowerNames(contents) == {toLowerCase(contents[k].name) : k \in 1..Len(contents)}

\* lines 925-929
IsMonorepo(contents) ==
    \/ LowerNames(contents) \cap {"lerna.json", "rush.json", "pnpm-workspace.yaml", "nx.json"} # {}
    \/ "packages" \in DirNames(contents)

\* lines 920-959, 981-988: the structure read from the root listing
StructureOf(contents) ==
    [type |-> IF IsMonorepo(contents) THEN "monorepo"
              ELSE IF DirNames(contents) \cap {"packages", "libs", "modules", "components"} # {}
                   THEN "multi-package" ELSE "standard",
     mainPath |-> IF "src" \in DirNames(contents) THEN "src/"
                  ELSE IF "lib" \in DirNames(contents) THEN "lib/"
                  ELSE IF "app" \in DirNames(contents) THEN "app/" ELSE Undefined,
     packages |-> NotListed,
     hasDocs |-> DirNames(contents) \cap DocDirNames # {},
     hasTests |-> DirNames(contents) \cap {"test", "tests", "spec", "specs", "__tests__"} # {},
     hasExamples |-> DirNames(contents) \cap {"examples", "example", "demo", "demos", "samples"} # {}]

\* lines 972-974
RECURSIVE PackageDirs(_)
PackageDirs(packagesData) ==
    IF Len(packagesData) = 0 THEN <<>>
    ELSE (IF Head(packagesData).type = "dir" THEN <<Head(packagesData).name>> ELSE <<>>)
         \o PackageDirs(Tail(packagesData))

\* String.prototype.replace(t, r) with a string pattern: the first occurrence
replaceFirst(s, t, r) ==
    IF includes(s, t)
    THEN (LET i == CHOOSE i \in 1..Len(s) :
                       /\ SubSeq(s, i, i + Len(t) - 1) = t
                       /\ \A j \in 1..(i - 1) : SubSeq(s, j, j + Len(t) - 1) # t
          IN  SubSeq(s, 1, i - 1) \o r \o SubSeq(s, i + Len(t), Len(s)))
    ELSE s

\* lines 692-697: owner/repo of the api urls
RepoPath(givenUrl) ==
    LET Of(parts) == parts[1] \o "/" \o (IF Len(parts) >= 2 THEN parts[2] ELSE "undefined")
    IN  Of(split(replaceFirst(givenUrl, "https://github.com/", ""), "/"))

(***************************************************************************)
(* analyzeRepository: the remote repositories the model resolves           *)
(***************************************************************************)
Entry(name, type) == [name |-> name, type |-> type]

Repositories ==
    <<[path |-> "o/lib",
       data |-> [homepage |-> "https://lib.dev", has_wiki |-> TRUE, name |-> "lib"],
       languages |-> JObject(<<<<"TypeScript", JNumber(300)>>, <<"JavaScript", JNumber(700)>>>>),
       hasReadme |-> TRUE,
       readme |-> "api docs https://lib.io/docs https://www.npmjs.com/lib",
       contents |-> <<Entry("package.json", "file"), Entry("Docs", "dir"), Entry("src", "dir"),
                      Entry("packages", "dir"), Entry("javadoc", "dir"), Entry("tests", "dir")>>,
       packages |-> <<Entry("a", "dir"), Entry("README.md", "file"), Entry("b", "dir")>>],
      [path |-> "o/tool",
       data |-> [homepage |-> "", has_wiki |-> FALSE, name |-> "tool"],
       languages |-> JObject(<<>>),
       hasReadme |-> FALSE,
       readme |-> "",
       contents |-> <<Entry("x.gemspec", "file"), Entry("Cargo.toml", "file"),
                      Entry("lib", "dir"), Entry("examples", "dir"), Entry("libs", "dir")>>,
       packages |-> <<>>],
      [path |-> "o/even",
       data |-> [homepage |-> "", has_wiki |-> FALSE, name |-> "even"],
       languages |-> JObject(<<<<"Go", JNumber(4990)>>, <<"Rust", JNumber(5010)>>,
                               <<"C", JNumber(0)>>>>),
       hasReadme |-> FALSE,
       readme |-> "",
       contents |-> <<Entry("go.mod", "file")>>,
       packages |-> <<>>]>>

Hosted(path) == \E k \in 1..Len(Repositories) : Repositories[k].path = path
Remote(path) == Repositories[CHOOSE k \in 1..Len(Repositories) : Repositories[k].path = path]

\* the body of a non-OK answer of the api
ErrorBody ==
    JObject(<<<<"message", JString("Not Found")>>,
              <<"documentation_url", JString("https://docs.github.com/rest")>>>>)

RepoUrls == {"https://github.com/o/lib", "https://github.com/o/tool", "https://github.com/o/even",
             "https://github.com/o/none"}

\* how a call of the api can end: a 2xx answer ("ok"), another answer with
\* the api's error body ("notOk"), fetch() rejected ("rejected")
CallOutcomes(present) == IF present THEN {"ok", "notOk", "rejected"} ELSE {"notOk", "rejected"}

(***************************************************************************)
(* analyzeRepository.execute                                               *)
(***************************************************************************)
Called(call, outcome) == Append(remoteCalls, [call |-> call, outcome |-> outcome])

\* lines 686-697: destructure the input, build the api urls
Analyze ==
    /\ apc = "idle"
    /\ \E given \in RepoUrls : repoUrl' = given
    /\ apc' = "metadata"
    /\ UNCHANGED <<repoData, languages, primaryLanguage, documentationSources, packageManager,
                   projectStructure, analysis, remoteCalls, besidesResolver>>

\* lines 698-706, 883-899: the repository metadata
RepoMetadata ==
    /\ apc = "metadata"
    /\ \E outcome \in CallOutcomes(Hosted(RepoPath(repoUrl))) :
          /\ remoteCalls' = Called("metadata", outcome)
          /\ IF outcome = "ok"
             THEN /\ repoData' = Remote(RepoPath(repoUrl)).data
                  /\ apc' = "languages"
                  /\ UNCHANGED analysis
             ELSE /\ analysis' = Unresolved(IF outcome = "notOk"
                                            THEN "Failed to fetch repository metadata: 404"
                                            ELSE FetchFailed)
                  /\ apc' = "done"
                  /\ UNCHANGED repoData
    /\ UNCHANGED <<repoUrl, languages, primaryLanguage, documentationSources, packageManager,
                   projectStructure, besidesResolver>>

\* lines 709-743, 883-899: the language statistics, then the sources that
\* the metadata names
LanguageStatistics ==
    /\ apc = "languages"
    /\ \E outcome \in CallOutcomes(TRUE) :
          /\ remoteCalls' = Called("languages", outcome)
          /\ IF outcome = "rejected"
             THEN /\ analysis' = Unresolved(FetchFailed)
                  /\ apc' = "done"
                  /\ UNCHANGED <<languages, primaryLanguage, documentationSources>>
             ELSE /\ languages' = LanguageShares(IF outcome = "ok"
                                                 THEN Remote(RepoPath(repoUrl)).languages
                                                 ELSE ErrorBody)
                  /\ primaryLanguage' = PrimaryOf(languages')
                  /\ documentationSources' = MetadataSources(repoData, repoUrl)
                  /\ apc' = "readme"
                  /\ UNCHANGED analysis
    /\ UNCHANGED <<repoUrl, repoData, packageManager, projectStructure, besidesResolver>>

\* lines 746-794: the readme and the sources found in it
Readme ==
    /\ apc = "readme"
    /\ \E outcome \in CallOutcomes(Remote(RepoPath(repoUrl)).hasReadme) :
          /\ remoteCalls' = Called("readme", outcome)
          /\ documentationSources' =
                IF outcome = "ok"
                THEN documentationSources
                     \o ReadmeSources(Remote(RepoPath(repoUrl)).readme, primaryLanguage)
                ELSE documentationSources
    /\ apc' = "contents"
    /\ UNCHANGED <<repoUrl, repoData, languages, primaryLanguage, packageManager,
                   projectStructure, analysis, besidesResolver>>

\* lines 797-863: the root listing, the package manager and its sources
Contents ==
    /\ apc = "contents"
    /\ \E outcome \in CallOutcomes(TRUE) :
          /\ remoteCalls' = Called("contents", outcome)
          /\ IF outcome = "ok"
             THEN /\ packageManager' =
                        DetectPackageManager(PACKAGE_MANAGERS,
                                             Names(Remote(RepoPath(repoUrl)).contents),
                                             repoData.name)
                  /\ documentationSources' =
                        documentationSources
                        \o ContentsSources(Names(Remote(RepoPath(repoUrl)).contents),
                                           repoData.name)
             ELSE /\ packageManager' = NoPackageManager
                  /\ UNCHANGED documentationSources
    /\ apc' = "structure"
    /\ UNCHANGED <<repoUrl, repoData, languages, primaryLanguage, projectStructure, analysis,
                   besidesResolver>>

\* lines 904-963, 989-997: determineProjectStructure up to the packages listing
Structure ==
    /\ apc = "structure"
    /\ \E outcome \in CallOutcomes(TRUE) :
          /\ remoteCalls' = Called("structure", outcome)
          /\ projectStructure' = IF outcome = "ok"
                                 THEN StructureOf(Remote(RepoPath(repoUrl)).contents)
                                 ELSE StandardStructure
          /\ apc' = IF /\ outcome = "ok"
                       /\ IsMonorepo(Remote(RepoPath(repoUrl)).contents)
                       /\ "packages" \in DirNames(Remote(RepoPath(repoUrl)).contents)
                    THEN "packages" ELSE "return"
    /\ UNCHANGED <<repoUrl, repoData, languages, primaryLanguage, documentationSources,
                   packageManager, analysis, besidesResolver>>

\* lines 963-979: the packages of a monorepo
Packages ==
    /\ apc = "packages"
    /\ \E outcome \in CallOutcomes(TRUE) :
          /\ remoteCalls' = Called("packages", outcome)
          /\ projectStructure' =
                IF outcome = "ok"
                THEN [projectStructure EXCEPT
                        !.packages = [defined |-> TRUE,
                                      names |-> PackageDirs(Remote(RepoPath(repoUrl)).packages)]]
                ELSE projectStructure
    /\ apc' = "return"
    /\ UNCHANGED <<repoUrl, repoData, languages, primaryLanguage, documentationSources,
                   packageManager, analysis, besidesResolver>>

\* lines 869-882: the sources are sorted, the result is returned
AnalyzeReturn ==
    /\ apc = "return"
    /\ analysis' = [primaryLanguage |-> primaryLanguage, languages |-> languages,
                    documentationSources |-> SortSources(documentationSources, <<>>),
                    packageManager |-> packageManager,
                    projectStructure |-> projectStructure,
                    success |-> TRUE, error |-> Undefined, returned |-> TRUE]
    /\ apc' = "done"
    /\ UNCHANGED <<repoUrl, repoData, languages, primaryLanguage, documentationSources,
                   packageManager, projectStructure, remoteCalls, besidesResolver>>

InitResolver == AtRest

NextResolver ==
    \/ Analyze
    \/ RepoMetadata
    \/ LanguageStatistics
    \/ Readme
    \/ Contents
    \/ Structure
    \/ Packages
    \/ AnalyzeReturn

SpecResolver == InitResolver /\ [][NextResolver]_vars

(***************************************************************************)
(* Claims about the resolver, checked under SpecResolver                   *)
(***************************************************************************)
Priorities == 1..4
OfPriority(sources, p) == SelectSeq(sources, LAMBDA source : source.priority = p)
Failed(call) ==
    \E k \in 1..Len(remoteCalls) : remoteCalls[k].call = call /\ remoteCalls[k].outcome # "ok"
TypesOf(sources) == {sources[k].type : k \in 1..Len(sources)}

\* C15: in every successful resolution the returned documentationSources are
\* in non-decreasing order of priority, and the sources of one priority are
\* in the order in which they were discovered.
SourcesByPriority ==
    (analysis.returned /\ analysis.success) =>
        /\ \A i, j \in 1..Len(analysis.documentationSources) :
              i < j => analysis.documentationSources[i].priority
                       <= analysis.documentationSources[j].priority
        /\ Len(analysis.documentationSources) = Len(documentationSources)
        /\ \A p \in Priorities :
              OfPriority(analysis.documentationSources, p) = OfPriority(documentationSources, p)

\* C15 witness: a successful resolution whose sources were discovered out of
\* priority order, with two different sources of one priority among them.
SourcesReordered ==
    /\ analysis.returned /\ analysis.success
    /\ analysis.documentationSources # documentationSources
    /\ \E i, j \in 1..Len(documentationSources) :
          /\ i + 1 < j
          /\ documentationSources[i].priority = documentationSources[j].priority
          /\ documentationSources[i] # documentationSources[j]
          /\ documentationSources[i + 1].priority > documentationSources[j].priority

\* C16: only a failed metadata call makes the resolution fail, and then with
\* an error and empty collections; any other failed call leaves success true
\* and only its own facet at its default.
OnlyMetadataFails ==
    analysis.returned =>
        /\ ~analysis.success <=> Failed("metadata")
        /\ ~analysis.success =>
              /\ analysis.error # Undefined
              /\ analysis.languages = <<>> /\ analysis.documentationSources = <<>>
        /\ analysis.success =>
              /\ Failed("languages") =>
                    analysis.languages = <<>> /\ analysis.primaryLanguage = "unknown"
              /\ Failed("readme") => "readme" \notin TypesOf(analysis.documentationSources)
              /\ Failed("contents") =>
                    /\ analysis.packageManager = NoPackageManager
                    /\ TypesOf(analysis.documentationSources)
                           \cap {"registry", "source", "generated"} = {}
              /\ Failed("structure") => analysis.projectStructure = StandardStructure
              /\ Failed("packages") => analysis.projectStructure.packages = NotListed

(***************************************************************************)
(* Further claims about the extractor                                      *)
(***************************************************************************)
\* the name a pattern captured: the signature up to its parameter list
CapturedName(signature) ==
    IF \E i \in 1..Len(signature) : Ch(signature, i) = "("
    THEN SubSeq(signature, 1, (CHOOSE i \in 1..Len(signature) :
                                  Ch(signature, i) = "("
                                  /\ \A j \in 1..(i - 1) : Ch(signature, j) # "(") - 1)
    ELSE signature

\* C17: a returned result has success = FALSE only with an empty list; a
\* manifest input whose content does not parse returns success = FALSE and
\* no entries; every other modelled input returns success = TRUE.
ParseFailureReported ==
    (epc = "done" /\ ~raised) =>
        /\ ~extracted.success => extracted.apis = <<>>
        /\ IF contentType = "json" /\ includes(content, "package.json")
              /\ content \notin Parseable
           THEN ~extracted.success /\ extracted.apis = <<>>
           ELSE extracted.success

\* C18: no returned entry has a captured name shorter than 2 or longer
\* than 100 characters.
NamesWithinLength ==
    (epc = "done" /\ ~raised) =>
        \A k \in 1..Len(extracted.apis) :
            /\ Len(CapturedName(extracted.apis[k].signature)) >= MinNameLength
            /\ Len(CapturedName(extracted.apis[k].signature)) <= MaxNameLength

\* C19: whether or not the log file can be appended to, a call does not
\* raise and returns the result it returns when the appends succeed.
SinkFailureHarmless ==
    epc = "done" =>
        /\ ~raised
        /\ extracted = [apis |-> FirstOccurrences(Found(<<content, contentType>>)),
                        success |-> TRUE]
(***************************************************************************)
(* Further claims about the retriever                                      *)
(***************************************************************************)
\* C21: after the branch probes, no request (candidate fetch, directory
\* listing, package listing) is issued while files.length >= maxFiles.
NoRequestAtCap == ~reqAtCap

\* C22: no request answered 404 is logged as an error, and every request
\* that ended with another non-2xx status or with a network exception is.
ErrorsLoggedExcept404 ==
    \A f \in errorLog : f.logged <=> f.kind # "notfound"

\* C28: no two entries of a returned file list have the same path.
NoDuplicatePaths ==
    result.returned =>
        \A i, j \in 1..Len(result.files) :
            i # j => result.files[i].path # result.files[j].path
(***************************************************************************)
(* Further claims about the parser                                         *)
(***************************************************************************)
\* C23: processing a line switches inCodeBlock if and only if the line,
\* surrounding white space aside, is the fence token and nothing else.
FenceOnlyToggles ==
    [][(lineNo \in 1..Len(lines) /\ lineNo' = lineNo + 1) =>
          ((inCodeBlock' # inCodeBlock) <=> (trim(lines[lineNo]) = Fence))]_pvars

\* a heading line as the documentation describes it: 1 to 6 leading #,
\* then white space, then text
Hashes(line) ==
    IF \E i \in 1..Len(line) : Ch(line, i) # "#"
    THEN (CHOOSE i \in 1..Len(line) :
              Ch(line, i) # "#" /\ \A j \in 1..(i - 1) : Ch(line, j) = "#") - 1
    ELSE Len(line)
HeadingShaped(line) ==
    /\ Hashes(line) \in 1..6
    /\ Len(line) >= Hashes(line) + 2
    /\ Ch(line, Hashes(line) + 1) \in WhiteSpace
HeadingText(line) == trim(SubSeq(line, Hashes(line) + 1, Len(line)))
HeadingLines(ls) == SelectSeq(ls, HeadingShaped)

ProfileOfHost(pageUrl) == FindPattern(SITE_PATTERNS, Origin(pageUrl))

\* C25: the profile with which the records and links of a page were taken
\* is the site's profile when the page's host is in the table of known
\* hosts, and the generic one otherwise.
ProfilePerPage ==
    \A k \in ReadPages : patterns.domain = ProfileOfHost(requests[k].url).domain

\* the last page request failed
LastPageFailed == Len(requests) > 0 /\ requests[Len(requests)].outcome # "ok"

\* C26: a page request that fails leaves the records, the queue and
\* pagesScraped as they were, returns to the head of the loop without a
\* result, and the loop then takes the head of the queue as it does after a
\* page that was read.
FailedPageSkipped ==
    /\ [][(cpc = "fetch" /\ Len(requests') > Len(requests)
             /\ requests'[Len(requests')].outcome # "ok") =>
            /\ scraped' = scraped
            /\ urlsToVisit' = urlsToVisit
            /\ pagesScraped' = pagesScraped
            /\ cpc' = "loop"
            /\ scrapeResult' = scrapeResult]_cvars
    /\ [][(cpc = "loop" /\ LastPageFailed
             /\ Len(urlsToVisit) > 0 /\ pagesScraped < maxPages) =>
            /\ currentUrl' = Head(urlsToVisit)
            /\ urlsToVisit' = Tail(urlsToVisit)
            /\ cpc' = "fetch"]_cvars

\* C26 witness: a page was read after the request for another page failed,
\* and the crawl returned records.
ReadAfterFailedPage ==
    /\ cpc = "done" /\ scrapeResult.success
    /\ \E k \in 1..Len(requests), j \in ReadPages :
          k < j /\ requests[k].outcome # "ok" /\ Exists(requests[k].url)

\* C29: no url is requested twice, and the queue holds no url twice and no
\* url of the visited set.
FrontierFresh ==
    /\ \A i, j \in 1..Len(requests) : i # j => requests[i].url # requests[j].url
    /\ \A i, j \in 1..Len(urlsToVisit) : i # j => urlsToVisit[i] # urlsToVisit[j]
    /\ \A i \in 1..Len(urlsToVisit) : urlsToVisit[i] \notin visitedUrls

\* C29 witness: a crawl has ended in which a page that was read links to a
\* page requested before it, and a page that was read holds a link twice.
LinkBackSkipped ==
    /\ cpc = "done"
    /\ \E j \in ReadPages, k \in 1..Len(requests) :
          /\ k < j
          /\ \E i \in 1..Len(Scrape(requests[j].url, patterns).links) :
                Scrape(requests[j].url, patterns).links[i] = requests[k].url
    /\ \E j \in ReadPages :
          \E a, b \in 1..Len(Scrape(requests[j].url, patterns).links) :
             a # b /\ Scrape(requests[j].url, patterns).links[a]
                        = Scrape(requests[j].url, patterns).links[b]
(***************************************************************************)
(* Further claims about the resolver                                       *)
(***************************************************************************)
\* the histogram the language call returned, when it was answered
Histogram == Remote(RepoPath(repoUrl)).languages.entries
HistogramRead ==
    \E k \in 1..Len(remoteCalls) : remoteCalls[k] = [call |-> "languages", outcome |-> "ok"]
Bytes(k) == Histogram[k][2].n
RECURSIVE SumOfBytes(_)
SumOfBytes(n) == IF n = 0 THEN 0 ELSE Bytes(n) + SumOfBytes(n - 1)

\* C27: primaryLanguage names a language with the largest byte count of the
\* histogram ("unknown" when the histogram is empty), and every language is
\* reported with 100 * bytes / total rounded to the nearest integer.
LanguageShareExact ==
    HistogramRead =>
        LET total == SumOfBytes(Len(Histogram))
        IN  /\ IF Len(Histogram) = 0
               THEN primaryLanguage = "unknown"
               ELSE \E k \in 1..Len(Histogram) :
                       /\ primaryLanguage = toLowerCase(Histogram[k][1])
                       /\ \A j \in 1..Len(Histogram) : Bytes(j) <= Bytes(k)
            /\ Len(languages) = Len(Histogram)
            /\ \A k \in 1..Len(Histogram) :
                  \E j \in 1..Len(languages) :
                     /\ languages[j].name = Histogram[k][1]
                     /\ languages[j].percentage.type = "number"
                     /\ 2 * (100 * Bytes(k) - languages[j].percentage.n * total) <= total
                     /\ 2 * (languages[j].percentage.n * total - 100 * Bytes(k)) <= total

(***************************************************************************)
(* The page (Home, unnamed/part_007): the workflow-progress steps          *)
(***************************************************************************)
MaxAnalyses == 3

\* the urls the form passes to onAnalyze (part_005 line 33)
PageUrls == {"https://github.com/o/lib", "https://github.com/o/tool"}
\* data.markdown of an answer of /api/generate
Markdowns == {"## lib - Condensed Context Index", ""}

\* lines 30-36: updateStep's updater, applied to the previous steps
updateStep(prev, stepId, status) ==
    [i \in 1..Len(prev) |->
        IF prev[i].id = stepId THEN [prev[i] EXCEPT !.status = status] ELSE prev[i]]

\* lines 70-72: the updater of the catch block
AllPending(prev) == [i \in 1..Len(prev) |-> [prev[i] EXCEPT !.status = "pending"]]

\* lines 68-76: catch and finally; the error is thrown on to the form
AnalysisFailed ==
    /\ workflowSteps' = AllPending(workflowSteps)
    /\ isLoading' = FALSE
    /\ outcomes' = Append(outcomes, "failed")
    /\ hpc' = "idle"
    /\ UNCHANGED <<output, shownRepoUrl>>

\* lines 25-40: the form is submitted (its button is enabled while isLoading
\* is false, part_005 line 96); the first step becomes active
HandleAnalyze ==
    /\ hpc = "idle" /\ ~isLoading /\ Len(outcomes) < MaxAnalyses
    /\ \E u \in PageUrls :
          /\ isLoading' = TRUE
          /\ output' = NoOutput
          /\ shownRepoUrl' = u
          /\ workflowSteps' = updateStep(workflowSteps, "1", "active")
          /\ hpc' = "timer1"
    /\ UNCHANGED outcomes
    /\ UNCHANGED besidesPage

\* lines 41-51: a timer of one second elapsed; the step that was active is
\* completed and the next one becomes active
TimerElapsed ==
    /\ \E k \in 1..3 :
          /\ hpc = <<"timer1", "timer2", "timer3">>[k]
          /\ workflowSteps' = updateStep(updateStep(workflowSteps, StepIds[k], "completed"),
                                         StepIds[k + 1], "active")
          /\ hpc' = <<"timer2", "timer3", "fetch">>[k]
    /\ UNCHANGED <<isLoading, output, shownRepoUrl, outcomes>>
    /\ UNCHANGED besidesPage

\* lines 53-62: /api/generate answered, or fetch rejected
Responded ==
    /\ hpc = "fetch"
    /\ \E o \in {"ok", "notOk", "rejected"} :
          IF o = "rejected" THEN AnalysisFailed
          ELSE /\ hpc' = IF o = "ok" THEN "json" ELSE "errorJson"
               /\ UNCHANGED <<workflowSteps, isLoading, output, shownRepoUrl, outcomes>>
    /\ UNCHANGED besidesPage

\* lines 59-62: the body of an answer that is not OK was read (or could not
\* be read); either way an error is thrown
ErrorBodyRead ==
    /\ hpc = "errorJson"
    /\ AnalysisFailed
    /\ UNCHANGED besidesPage

\* lines 64-66, 74-76: the body of the answer was read, or could not be read
BodyRead ==
    /\ hpc = "json"
    /\ \E o \in {"ok", "rejected"} :
          IF o = "rejected" THEN AnalysisFailed
          ELSE \E md \in Markdowns :
                  /\ workflowSteps' = updateStep(workflowSteps, "4", "completed")
                  /\ output' = [set |-> TRUE, markdown |-> md]
                  /\ isLoading' = FALSE
                  /\ outcomes' = Append(outcomes, "succeeded")
                  /\ hpc' = "idle"
                  /\ UNCHANGED shownRepoUrl
    /\ UNCHANGED besidesPage

InitPage == AtRest

NextPage ==
    \/ HandleAnalyze
    \/ TimerElapsed
    \/ Responded
    \/ ErrorBodyRead
    \/ BodyRead

SpecPage == InitPage /\ [][NextPage]_vars

(***************************************************************************)
(* Claims about the page, checked under SpecPage                           *)
(***************************************************************************)
StatusOf(i) == workflowSteps[i].status

\* C30: in every state of every sequence of analyses, a step that is active
\* has only completed steps before it and only pending steps after it, and
\* at most one step is active.
ActiveStepOrdered ==
    /\ \A i \in 1..Len(workflowSteps) :
          StatusOf(i) = "active" =>
             /\ \A j \in 1..(i - 1) : StatusOf(j) = "completed"
             /\ \A j \in (i + 1)..Len(workflowSteps) : StatusOf(j) = "pending"
    /\ \A i, j \in 1..Len(workflowSteps) :
          (StatusOf(i) = "active" /\ StatusOf(j) = "active") => i = j

====
